---- MODULE Spec2Model ----
(***************************************************************************)
(* A model of the Moorcheh MCP server: the startup sequence (CLI wrapper,  *)
(* .env loading, credential check, server creation, stdio connection) and  *)
(* the tool handlers with the HTTP calls they issue.                       *)
(*                                                                         *)
(* Conventions.                                                            *)
(*  - A JavaScript string whose characters matter (a search query) is a    *)
(*    sequence of one-character strings; any other string is a TLA+ string.*)
(*  - A JavaScript object is a function over the names of the properties   *)
(*    it has; a property that is undefined is not in the DOMAIN.           *)
(*  - A text built by a template literal is the sequence of its pieces.    *)
(*  - threshold and temperature are held in tenths (8 is 0.8).             *)
(*  - Opaque JSON payloads are held as their JSON text.                    *)
(***************************************************************************)
EXTENDS Integers, Sequences, FiniteSets, TLC

VARIABLES
    entry,      \* how the process was launched: "cli" (bin wrapper) or "direct"
    rev,        \* the revision of the server: "mono" (single file, namespace-details
                \* lookup), "list" (modules, namespace-list lookup) or "qtype"
                \* (modules, query_type parameter)
    phase,      \* position in the startup sequence
    env,        \* process.env, restricted to MOORCHEH_API_KEY
    envFile,    \* the .env file: the assignments its lines make
    apiKey,     \* the module constant MOORCHEH_API_KEY / API_KEY
    warned,     \* the placeholder warning was written to stderr
    exitCode,   \* -1 while the process lives, else the code of process.exit
    server,     \* "none", "created" (McpServer built, tools registered), "connected"
    inv,        \* the tool invocation being handled
    store,      \* the namespaces the remote service holds, in creation order
    told,       \* per name, what the last successful create or delete said of it
    out,        \* the chunks that reached the real stdout and stderr, and
                \* the chunks handed to process.stdout.write, in order
    pool        \* the invocations in flight when several are handled at once

vars == <<entry, rev, phase, env, envFile, apiKey, warned, exitCode, server, inv,
          store, told, out, pool>>

\* the variables only the specifications of the store, of the output
\* streams and of concurrent invocations change
Aside == <<store, told, out, pool>>

(***************************************************************************)
(* Bounds of the model.                                                    *)
(***************************************************************************)
MaxTokens == 2      \* comma-separated pieces of a query string
MaxDim == 2         \* largest vector_dimension a namespace reports
MaxPathLen == 3     \* pieces of a file path

Empty == [x \in {} |-> 0]

Has(obj, f) == f \in DOMAIN obj

\* obj with property f set when cond holds (the "if (c) body.f = v" idiom)
WithIf(obj, cond, f, v) == IF cond THEN (f :> v) @@ obj ELSE obj

SeqsUpTo(S, n) == UNION {[1..k -> S] : k \in 0..n}

(***************************************************************************)
(* Startup                                                                 *)
(***************************************************************************)
KEY == "MOORCHEH_API_KEY"

Placeholder == "your_api_key_here"

\* the values the credential takes: empty, the placeholder, a short one, a real one
KeyValues == {"", Placeholder, "abc123", "mk_live_4f9a2c7e1b"}

Envs == {Empty} \cup {KEY :> v : v \in KeyValues}

\* <<>> is a missing (or comment-only) file
EnvFiles == {<<>>} \cup {<<[key |-> KEY, value |-> v]>> : v \in KeyValues}
                   \cup {<<[key |-> "OTHER", value |-> "x"]>>}

\* JavaScript truthiness of process.env.MOORCHEH_API_KEY
Truthy(e) == Has(e, KEY) /\ e[KEY] # ""

RECURSIVE LoadEnvFile(_, _)
LoadEnvFile(e, lines) ==
    IF lines = <<>> THEN e
    ELSE LoadEnvFile((Head(lines).key :> Head(lines).value) @@ e, Tail(lines))

LooksPlaceholder(k) == k = Placeholder \/ Len(k) < 10

IdleInv == [pc |-> "idle"]

\* the invocations the event loop may hold at once
Slots == {"a", "b"}

\* nothing stored, nothing written, nothing in flight
AsideInit ==
    /\ store = <<>>
    /\ told = <<>>
    /\ out = [stdout |-> <<>>, stderr |-> <<>>, written |-> <<>>]
    /\ pool = [s \in Slots |-> [inv |-> IdleInv, log |-> <<>>]]

\* the bin wrapper starts the modular server
Revs == {"mono", "list", "qtype"}

StartupInit ==
    /\ entry \in {"cli", "direct"}
    /\ rev \in IF entry = "cli" THEN {"list", "qtype"} ELSE Revs
    /\ phase = IF entry = "cli" THEN "cli" ELSE "load"
    /\ env \in Envs
    /\ envFile \in EnvFiles
    /\ apiKey = ""
    /\ warned = FALSE
    /\ exitCode = -1
    /\ server = "none"
    /\ inv = IdleInv
    /\ AsideInit

\* bin wrapper: exit(1) without a key in the environment, else spawn the server
CliCheck ==
    /\ phase = "cli" /\ exitCode = -1
    /\ IF ~Truthy(env)
       THEN /\ exitCode' = 1
            /\ phase' = "exited"
       ELSE /\ exitCode' = exitCode
            /\ phase' = "load"
    /\ UNCHANGED <<entry, rev, env, envFile, apiKey, warned, server, inv, Aside>>

\* the .env file's assignments overwrite process.env
LoadEnv ==
    /\ phase = "load" /\ exitCode = -1
    /\ env' = LoadEnvFile(env, envFile)
    /\ phase' = "check"
    /\ UNCHANGED <<entry, rev, envFile, apiKey, warned, exitCode, server, inv, Aside>>

\* a placeholder test that ends the process
PlaceholderExits(k) == LooksPlaceholder(k)

\* whether the placeholder test ends the process: it only writes a warning
PlaceholderExit(k) == FALSE

\* a credential test that lets the empty string through
MissingKeyUndefinedOnly(e) == ~Has(e, KEY)

\* if (!MOORCHEH_API_KEY): undefined and the empty string
MissingKeyExit(e) == ~Truthy(e)

CheckKey ==
    /\ phase = "check" /\ exitCode = -1
    /\ IF MissingKeyExit(env)
       THEN /\ exitCode' = 1
            /\ phase' = "exited"
            /\ UNCHANGED <<apiKey, warned>>
       ELSE /\ apiKey' = env[KEY]
            /\ warned' = LooksPlaceholder(env[KEY])
            /\ IF PlaceholderExit(env[KEY])
               THEN exitCode' = 1 /\ phase' = "exited"
               ELSE exitCode' = exitCode /\ phase' = "configured"
    /\ UNCHANGED <<entry, rev, env, envFile, server, inv, Aside>>

CreateServer ==
    /\ phase = "configured" /\ exitCode = -1
    /\ server' = "created"
    /\ phase' = "created"
    /\ UNCHANGED <<entry, rev, env, envFile, apiKey, warned, exitCode, inv, Aside>>

Connect ==
    /\ phase = "created" /\ exitCode = -1
    /\ server' = "connected"
    /\ phase' = "running"
    /\ UNCHANGED <<entry, rev, env, envFile, apiKey, warned, exitCode, inv, Aside>>

Startup == CliCheck \/ LoadEnv \/ CheckKey \/ CreateServer \/ Connect

(***************************************************************************)
(* Transport: makeApiRequest and the error classification                  *)
(***************************************************************************)
BaseUrl == "https://api.moorcheh.ai/v1"

constructApiUrl(endpoint) == <<BaseUrl, endpoint>>

API_ENDPOINTS ==
    [namespaces |-> constructApiUrl("/namespaces"),
     search     |-> constructApiUrl("/search"),
     answer     |-> constructApiUrl("/answer")]

\* the data = null default of makeApiRequest
Null == [null |-> TRUE]

\* the axios config of makeApiRequest; the single-file revision also sends an
\* Authorization header
makeApiRequestConfig(method, url, data) ==
    WithIf([method  |-> method,
            url     |-> url,
            headers |-> WithIf(("x-api-key" :> apiKey) @@ ("Content-Type" :> "application/json"),
                               rev = "mono", "Authorization", <<"Bearer ", apiKey>>)],
           data # Null, "data", data)

\* what axios hands back: a 2xx response, an error with a response, or an
\* error without one (status 0)
ErrStatuses == {401, 403, 404, 500}
\* error.response.data, held with its JSON.stringify text
ErrBodies == {[json |-> "{\"message\":\"denied\"}"]}
NetMessages == {"connect ECONNREFUSED"}

Failures ==
    {[status |-> s, data |-> b] : s \in ErrStatuses, b \in ErrBodies}
    \cup {[status |-> 0, message |-> m] : m \in NetMessages}

Ok(d) == [status |-> 200, data |-> d]

IsOk(resp) == resp.status >= 200 /\ resp.status < 300

\* the error object axios rejects with
AxiosError(resp) ==
    IF resp.status = 0
    THEN [message |-> <<resp.message>>]
    ELSE [message  |-> <<"Request failed with status code ", ToString(resp.status)>>,
          response |-> [status |-> resp.status, data |-> resp.data]]

\* the three branches on error.response that both helpers share
ResponseErrorMessage(response) ==
    IF response.status = 403
    THEN <<"Forbidden: Check your API key. Status: ", ToString(response.status),
           ", Response: ", response.data.json>>
    ELSE IF response.status = 401
    THEN <<"Unauthorized: Invalid API key. Status: ", ToString(response.status),
           ", Response: ", response.data.json>>
    ELSE <<"API Error (", ToString(response.status), "): ", response.data.json>>

\* catch block of makeApiRequest: the Error it throws
makeApiRequestCatch(error) ==
    IF Has(error, "response")
    THEN [message |-> ResponseErrorMessage(error.response)]
    ELSE [message |-> <<"Network Error: ">> \o error.message]

(***************************************************************************)
(* Tool invocations                                                        *)
(***************************************************************************)
\* an invocation: its tool, its arguments, the position of its handler, the
\* HTTP calls it issued with the status each ended with (0: no response), the
\* namespace its lookup found, the payload of its primary call's 2xx response,
\* and how it ended: a returned text, or an exception raised to the dispatch
\* layer
NewInv(tool, args) ==
    [tool |-> tool, args |-> args, pc |-> "start",
     calls |-> <<>>, statuses |-> <<>>, target |-> Empty, data |-> Empty,
     result |-> <<>>, raised |-> FALSE]

Issue(i, pc, config) == [i EXCEPT !.pc = pc, !.calls = Append(@, config)]

Return(i, text) == [i EXCEPT !.pc = "done", !.result = text]

Settle(i, resp) ==
    [i EXCEPT !.statuses = Append(@, resp.status),
              !.data = IF i.pc = "await" /\ IsOk(resp) THEN resp.data ELSE @]

\* the prefix each handler's catch block puts before error.message
ErrorPrefix(tool) ==
    CASE tool = "list-namespaces"  -> "Error listing namespaces: "
      [] tool = "create-namespace" -> "Error creating namespace: "
      [] tool = "delete-namespace" -> "Error deleting namespace: "
      [] tool = "upload-text"      -> "Error uploading text documents: "
      [] tool = "upload-vectors"   -> "Error uploading vectors: "
      [] tool = "delete-data"      -> "Error deleting data: "
      [] tool = "get-data"         -> "Error fetching data: "
      [] tool = "upload-file"      -> "Error uploading file: "
      [] tool = "search"           -> "Error searching: "
      [] tool = "answer"           -> "Error getting AI answer: "

\* a rethrowing catch block: the exception reaches the dispatch layer
CatchRethrow(i, error) ==
    [i EXCEPT !.pc = "done", !.raised = TRUE, !.result = error.message]

\* the catch block of every handler
Catch(i, error) == Return(i, <<ErrorPrefix(i.tool)>> \o error.message)

Names == {"docs", "vecs"}

\* opaque success payloads, held with their JSON.stringify(data, null, 2) text
Payloads == {[json |-> "{\"status\":\"success\"}"]}

(***************************************************************************)
(* Strings of characters: split, trim, parseFloat, JSON.parse              *)
(* The characters of the model are the digits 1 and 2, the space, the      *)
(* comma, the brackets and the letter x.                                   *)
(***************************************************************************)
IsDigit(c) == c \in {"1", "2"}

DigitVal(c) == IF c = "1" THEN 1 ELSE 2

\* the white space and line terminators of the model
WhiteSpace == {" ", "\n", "\t"}

\* String.prototype.trim
RECURSIVE Trim(_)
Trim(s) ==
    IF s = <<>> THEN s
    ELSE IF Head(s) \in WhiteSpace THEN Trim(Tail(s))
    ELSE IF s[Len(s)] \in WhiteSpace THEN Trim(SubSeq(s, 1, Len(s) - 1))
    ELSE s

\* String.prototype.split(','): never empty, "" splits to [""]
RECURSIVE SplitFrom(_, _)
SplitFrom(cur, s) ==
    IF s = <<>> THEN <<cur>>
    ELSE IF Head(s) = "," THEN <<cur>> \o SplitFrom(<<>>, Tail(s))
    ELSE SplitFrom(Append(cur, Head(s)), Tail(s))

Split(s) == SplitFrom(<<>>, s)

\* Array.prototype.join(sep) of strings
RECURSIVE Join(_, _)
Join(ss, sep) ==
    IF ss = <<>> THEN <<>>
    ELSE IF Len(ss) = 1 THEN Head(ss)
    ELSE Head(ss) \o sep \o Join(Tail(ss), sep)

NaN == [nan |-> TRUE]

isNaN(v) == Has(v, "nan")

\* the value of the leading run of digits of s, after acc
RECURSIVE DigitRun(_, _)
DigitRun(acc, s) ==
    IF s # <<>> /\ IsDigit(Head(s)) THEN DigitRun(10 * acc + DigitVal(Head(s)), Tail(s))
    ELSE acc

\* a conversion of the whole text, as Number makes it: NaN when anything
\* follows the digits
parseFloatWhole(s) ==
    LET t == Trim(s) IN
    IF t # <<>> /\ \A k \in DOMAIN t : IsDigit(t[k]) THEN [num |-> DigitRun(0, t)] ELSE NaN

\* parseFloat: leading white space is skipped, then the longest numeric prefix
\* is converted and what follows it is ignored; NaN without such a prefix
parseFloat(s) ==
    LET t == Trim(s) IN
    IF t # <<>> /\ IsDigit(Head(t)) THEN [num |-> DigitRun(0, t)] ELSE NaN

\* the decimal digits of a number of the model
RECURSIVE NumberChars(_)
NumberChars(n) ==
    IF n < 10 THEN <<ToString(n)>> ELSE Append(NumberChars(n \div 10), ToString(n % 10))

\* Array.prototype.toString of an array of numbers: "1,2"
RECURSIVE ArrayToString(_)
ArrayToString(a) ==
    IF a = <<>> THEN <<>>
    ELSE IF Len(a) = 1 THEN NumberChars(a[1])
    ELSE NumberChars(a[1]) \o <<",">> \o ArrayToString(Tail(a))

\* first position from p on that holds no white space
RECURSIVE SkipWs(_, _)
SkipWs(s, p) == IF p <= Len(s) /\ s[p] = " " THEN SkipWs(s, p + 1) ELSE p

\* first position from p on that holds no digit
RECURSIVE DigitsEnd(_, _)
DigitsEnd(s, p) == IF p <= Len(s) /\ IsDigit(s[p]) THEN DigitsEnd(s, p + 1) ELSE p

JsonFail == [ok |-> FALSE, next |-> 0, isNum |-> FALSE, num |-> 0, nums |-> <<>>, allNums |-> FALSE]

\* JSON.parse restricted to the model's characters: a value is a number or an
\* array of values. For an array, nums holds its numeric items and allNums
\* tells whether every item is a number.
RECURSIVE JsonValue(_, _)
RECURSIVE JsonElements(_, _, _, _)
JsonValue(s, p) ==
    LET q == SkipWs(s, p) IN
    IF q > Len(s) THEN JsonFail
    ELSE IF IsDigit(s[q])
    THEN [ok |-> TRUE, next |-> DigitsEnd(s, q), isNum |-> TRUE,
          num |-> DigitRun(0, SubSeq(s, q, Len(s))), nums |-> <<>>, allNums |-> FALSE]
    ELSE IF s[q] = "["
    THEN LET r == SkipWs(s, q + 1) IN
         IF r <= Len(s) /\ s[r] = "]"
         THEN [ok |-> TRUE, next |-> r + 1, isNum |-> FALSE, num |-> 0,
               nums |-> <<>>, allNums |-> TRUE]
         ELSE JsonElements(s, q + 1, <<>>, TRUE)
    ELSE JsonFail

JsonElements(s, p, acc, all) ==
    LET v == JsonValue(s, p) IN
    IF ~v.ok THEN JsonFail
    ELSE LET r    == SkipWs(s, v.next)
             acc2 == IF v.isNum THEN Append(acc, v.num) ELSE acc
             all2 == all /\ v.isNum
         IN  IF r > Len(s) THEN JsonFail
             ELSE IF s[r] = "]"
             THEN [ok |-> TRUE, next |-> r + 1, isNum |-> FALSE, num |-> 0,
                   nums |-> acc2, allNums |-> all2]
             ELSE IF s[r] = "," THEN JsonElements(s, r + 1, acc2, all2)
             ELSE JsonFail

\* ok is FALSE where JSON.parse throws
JSONparse(s) ==
    LET v == JsonValue(s, 1) IN
    IF v.ok /\ SkipWs(s, v.next) > Len(s) THEN v ELSE JsonFail

\* a test that also wants the array to hold a number
IsNonEmptyNumberArray(v) == v.ok /\ ~v.isNum /\ v.allNums /\ v.nums # <<>>

\* Array.isArray(parsed) && parsed.every(item => typeof item === 'number')
IsNumberArray(v) == v.ok /\ ~v.isNum /\ v.allNums

(***************************************************************************)
(* Namespace tools                                                         *)
(***************************************************************************)
\* the namespace descriptors the service reports for name n
Descriptors(n) ==
    LET base(t) == [namespace_name |-> n, type |-> t,
                    createdAt |-> "2025-01-01T00:00:00Z", itemCount |-> 0]
    IN  {base("text"), base("vector")}
        \cup {("vector_dimension" :> d) @@ base("vector") : d \in 0..MaxDim}

AllDescriptors == UNION {Descriptors(n) : n \in Names}

\* the lists a GET /namespaces returns: each name at most once, in any order
NamespaceLists ==
    {l \in SeqsUpTo(AllDescriptors, Cardinality(Names)) :
        \A a, b \in DOMAIN l : a # b => l[a].namespace_name # l[b].namespace_name}

ListDatas == {Empty} \cup {[namespaces |-> l] : l \in NamespaceLists}

\* ns.vector_dimension || 'N/A'
DimensionOrNA(ns) ==
    IF Has(ns, "vector_dimension") /\ ns.vector_dimension # 0
    THEN ToString(ns.vector_dimension) ELSE "N/A"

FormatNamespace(ns) ==
    <<"Namespace: ", ns.namespace_name, "\n",
      "Type: ", ns.type, "\n",
      "Vector Dimension: ", DimensionOrNA(ns), "\n",
      "Created: ", ns.createdAt, "\n",
      "Items: ", ToString(ns.itemCount), "\n",
      "---">>

listNamespacesRequest(args) == makeApiRequestConfig("GET", API_ENDPOINTS.namespaces, Null)

\* a rendering that tests only for a missing list, not for an empty one
listNamespacesResultNoLengthTest(args, data) ==
    IF ~Has(data, "namespaces")
    THEN <<"No namespaces found">>
    ELSE <<"Available namespaces:\n\n">>
         \o Join([k \in DOMAIN data.namespaces |-> FormatNamespace(data.namespaces[k])],
                 <<"\n">>)

\* a rendering that loses the first namespace of the list
listNamespacesResultSkipsFirst(args, data) ==
    IF ~Has(data, "namespaces") \/ data.namespaces = <<>>
    THEN <<"No namespaces found">>
    ELSE <<"Available namespaces:\n\n">>
         \o Join([k \in DOMAIN Tail(data.namespaces) |-> FormatNamespace(Tail(data.namespaces)[k])],
                 <<"\n">>)

listNamespacesResult(args, data) ==
    IF ~Has(data, "namespaces") \/ data.namespaces = <<>>
    THEN <<"No namespaces found">>
    ELSE <<"Available namespaces:\n\n">>
         \o Join([k \in DOMAIN data.namespaces |-> FormatNamespace(data.namespaces[k])],
                 <<"\n">>)

CreateNamespaceArgs ==
    {a @@ b @@ [namespace_name |-> n] :
        n \in Names,
        a \in {Empty} \cup {[type |-> t] : t \in {"text", "vector"}},
        b \in {Empty} \cup {[vector_dimension |-> d] : d \in 1..MaxDim}}

\* type = "text" is the parameter default; an undefined vector_dimension is
\* not serialised
createNamespaceRequest(args) ==
    makeApiRequestConfig("POST", API_ENDPOINTS.namespaces,
        WithIf([namespace_name |-> args.namespace_name,
                type |-> IF Has(args, "type") THEN args.type ELSE "text"],
               Has(args, "vector_dimension"), "vector_dimension",
               IF Has(args, "vector_dimension") THEN args.vector_dimension ELSE 0))

createNamespaceResult(args, data) ==
    <<"Successfully created namespace \"", args.namespace_name, "\":\n", data.json>>

NameArgs == {[namespace_name |-> n] : n \in Names}

deleteNamespaceRequest(args) ==
    makeApiRequestConfig("DELETE", API_ENDPOINTS.namespaces \o <<"/", args.namespace_name>>, Null)

deleteNamespaceResult(args, data) ==
    <<"Successfully deleted namespace \"", args.namespace_name, "\":\n", data.json>>

(***************************************************************************)
(* Data tools                                                              *)
(***************************************************************************)
Documents ==
    {[id |-> "1", text |-> "hello"],
     [id |-> "2", text |-> "world", metadata |-> "{\"lang\":\"en\"}"]}

VectorRecords ==
    {[id |-> "a", vector |-> <<1>>], [id |-> "b", vector |-> <<2, 1>>]}

Ids == {"1", "2"}

UploadTextArgs ==
    {[namespace_name |-> n, documents |-> d] : n \in Names, d \in SeqsUpTo(Documents, 2)}

UploadVectorsArgs ==
    {[namespace_name |-> n, vectors |-> v] : n \in Names, v \in SeqsUpTo(VectorRecords, 2)}

IdsArgs == {[namespace_name |-> n, ids |-> s] : n \in Names, s \in SeqsUpTo(Ids, 2)}

NamespaceUrl(name, path) == API_ENDPOINTS.namespaces \o <<"/", name, path>>

uploadTextRequest(args) ==
    makeApiRequestConfig("POST", NamespaceUrl(args.namespace_name, "/documents"),
                         [documents |-> args.documents])

uploadTextResult(args, data) ==
    <<"Successfully uploaded ", ToString(Len(args.documents)), " document(s) to namespace \"",
      args.namespace_name, "\":\n", data.json>>

\* a request that keeps only the vectors as long as the first one
uploadVectorsRequestSameLength(args) ==
    makeApiRequestConfig("POST", NamespaceUrl(args.namespace_name, "/vectors"),
        [vectors |-> SelectSeq(args.vectors,
                               LAMBDA v : Len(v.vector) = Len(args.vectors[1].vector))])

uploadVectorsRequest(args) ==
    makeApiRequestConfig("POST", NamespaceUrl(args.namespace_name, "/vectors"),
                         [vectors |-> args.vectors])

uploadVectorsResult(args, data) ==
    <<"Successfully uploaded ", ToString(Len(args.vectors)), " vector(s) to namespace \"",
      args.namespace_name, "\":\n", data.json>>

deleteDataRequest(args) ==
    makeApiRequestConfig("POST", NamespaceUrl(args.namespace_name, "/documents/delete"),
                         [ids |-> args.ids])

deleteDataResult(args, data) ==
    <<"Successfully deleted ", ToString(Len(args.ids)), " item(s) from namespace \"",
      args.namespace_name, "\":\n", data.json>>

getDataRequest(args) ==
    makeApiRequestConfig("POST", NamespaceUrl(args.namespace_name, "/documents/get"),
                         [ids |-> args.ids])

getDataResult(args, data) ==
    <<"Fetched ", ToString(Len(args.ids)), " item(s) from namespace \"",
      args.namespace_name, "\":\n", data.json>>

(***************************************************************************)
(* Search                                                                  *)
(***************************************************************************)
\* a query is a string (of characters) or an array of numbers
Str(s) == [str |-> s]

Arr(a) == [arr |-> a]

\* typeof query === 'string'
IsString(q) == Has(q, "str")

\* the pieces query strings are made of, joined by commas
QueryPieces ==
    {<<"1">>, <<"2">>, <<"x">>, <<"[", "1">>, <<" ", "2", "]">>, <<"[", "]">>}

StringQueries == {Join(ps, <<",">>) : ps \in SeqsUpTo(QueryPieces, MaxTokens)}

ArrayQueries == SeqsUpTo({1, 2}, MaxTokens)

Queries == {Str(s) : s \in StringQueries} \cup {Arr(a) : a \in ArrayQueries}

NamespaceArgs == {<<>>, <<"docs">>, <<"vecs", "docs">>}

\* every object that sets at most max of the given optional properties;
\* choices maps a property to the values it may take
RECURSIVE OptionSets(_, _, _)
OptionSets(choices, fields, max) ==
    IF fields = {} \/ max = 0 THEN {Empty}
    ELSE LET f == CHOOSE x \in fields : TRUE IN
         OptionSets(choices, fields \ {f}, max)
         \cup {(f :> v) @@ o : v \in choices[f], o \in OptionSets(choices, fields \ {f}, max - 1)}

MaxOpts == 2        \* optional arguments one invocation supplies

SearchChoices ==
    [threshold |-> {0, 8}, kiosk_mode |-> {TRUE}, top_k |-> {5}, query_type |-> {"text", "vector"}]

\* the arguments the tool's schema lets through; the query_type revision
\* wants a namespace and a non-empty string
SearchArgs ==
    {o @@ [namespaces |-> n, query |-> q] :
        n \in IF rev = "qtype" THEN NamespaceArgs \ {<<>>} ELSE NamespaceArgs,
        q \in IF rev = "qtype" THEN Queries \ {Str(<<>>)} ELSE Queries,
        o \in OptionSets(SearchChoices,
                         IF rev = "qtype" THEN DOMAIN SearchChoices
                         ELSE DOMAIN SearchChoices \ {"query_type"}, MaxOpts)}

DefaultSearchTopK == 10

\* the interpolation ${query}
QueryText(q) == IF IsString(q) THEN q.str ELSE ArrayToString(q.arr)

\* a body that tests the threshold for truthiness
searchRequestBodyTruthy(args, finalQuery) ==
    WithIf([namespaces |-> args.namespaces,
            query      |-> finalQuery,
            top_k      |-> IF Has(args, "top_k") THEN args.top_k ELSE DefaultSearchTopK,
            kiosk_mode |-> IF Has(args, "kiosk_mode") THEN args.kiosk_mode ELSE FALSE],
           Has(args, "threshold") /\ args.threshold # 0, "threshold", args.threshold)

\* requestBody of the search handler (the same in the three revisions)
searchRequestBody(args, finalQuery) ==
    WithIf([namespaces |-> args.namespaces,
            query      |-> finalQuery,
            top_k      |-> IF Has(args, "top_k") THEN args.top_k ELSE DefaultSearchTopK,
            kiosk_mode |-> IF Has(args, "kiosk_mode") THEN args.kiosk_mode ELSE FALSE],
           Has(args, "threshold"), "threshold", args.threshold)

searchRequest(args, finalQuery) ==
    makeApiRequestConfig("POST", API_ENDPOINTS.search, searchRequestBody(args, finalQuery))

\* a lookup guard without the typeof test
NeedsLookupAnyQuery(args) ==
    rev \in {"list", "mono"} /\ Len(args.namespaces) > 0

\* the lookup guard of the two revisions that look the namespace up
NeedsLookup(args) ==
    rev \in {"list", "mono"} /\ Len(args.namespaces) > 0 /\ IsString(args.query)

\* GET of the namespace list ("list") or of the first namespace's details ("mono")
searchLookupRequest(args) ==
    IF rev = "list"
    THEN makeApiRequestConfig("GET", API_ENDPOINTS.namespaces, Null)
    ELSE makeApiRequestConfig("GET", API_ENDPOINTS.namespaces \o <<"/", args.namespaces[1]>>, Null)

\* what the details endpoint returns for a name: the descriptor, bare or
\* wrapped, or an object without a type
DetailDatas(n) ==
    {Empty} \cup Descriptors(n) \cup {[namespace |-> d] : d \in Descriptors(n)}

\* Array.prototype.find by namespace_name; Empty for undefined
RECURSIVE Find(_, _)
Find(list, name) ==
    IF list = <<>> THEN Empty
    ELSE IF Head(list).namespace_name = name THEN Head(list)
    ELSE Find(Tail(list), name)

\* a choice of the first listed namespace that the list reports as a vector
\* namespace, the first listed one when there is none
TargetNamespaceAnyVector(args, data) ==
    IF rev = "list"
    THEN LET list == IF Has(data, "namespaces") THEN data.namespaces ELSE <<>>
             vecs == SelectSeq(args.namespaces, LAMBDA n : /\ Has(Find(list, n), "type")
                                                        /\ Find(list, n).type = "vector")
         IN  Find(list, IF vecs # <<>> THEN vecs[1] ELSE args.namespaces[1])
    ELSE IF Has(data, "namespace") THEN data.namespace ELSE data

\* targetNamespace ("list": allNamespacesResp.namespaces || [], then find)
\* or nsInfo ("mono": nsInfoResp.namespace || nsInfoResp)
TargetNamespace(args, data) ==
    IF rev = "list"
    THEN Find(IF Has(data, "namespaces") THEN data.namespaces ELSE <<>>, args.namespaces[1])
    ELSE IF Has(data, "namespace") THEN data.namespace ELSE data

\* a test of the namespace's presence only
IsVectorAnyType(t) == Has(t, "type")

\* targetNamespace && targetNamespace.type === 'vector'
IsVector(t) == Has(t, "type") /\ t.type = "vector"

\* vector_dimension, 0 when the property is missing (both are falsy)
VectorDimension(t) == IF Has(t, "vector_dimension") THEN t.vector_dimension ELSE 0

RECURSIVE NumbersOf(_)
NumbersOf(pieces) ==
    IF pieces = <<>> THEN <<>>
    ELSE LET v == parseFloat(Trim(Head(pieces))) IN
         (IF isNaN(v) THEN <<>> ELSE <<v.num>>) \o NumbersOf(Tail(pieces))

\* query.split(',').map(s => parseFloat(s.trim())).filter(v => !isNaN(v))
ParseVector(s) == NumbersOf(Split(s))

\* a test that compares the length with the dimension even when there is none
RejectedWithoutDimension(t, arr) ==
    \/ Len(arr) = 0
    \/ Len(arr) # VectorDimension(t)

\* a length test that skips the emptiness test
RejectedLengthOnly(t, arr) ==
    Len(arr) # (IF VectorDimension(t) # 0 THEN VectorDimension(t) ELSE Len(arr))

\* !arr.length || arr.length !== (targetNamespace.vector_dimension || arr.length)
Rejected(t, arr) ==
    \/ Len(arr) = 0
    \/ Len(arr) # (IF VectorDimension(t) # 0 THEN VectorDimension(t) ELSE Len(arr))

ValidationError(t) ==
    <<"Error: Query string could not be parsed into a valid ",
      IF VectorDimension(t) # 0 THEN ToString(VectorDimension(t)) ELSE "",
      "-dimensional vector array. Please provide a comma-separated list of numbers matching the namespace dimension.">>

\* a resolution that takes an array for a text query as it comes
ResolveQueryTypeNoTextCheck(args) ==
    LET query  == args.query
        isStr  == IsString(query)
        parsed == IF isStr THEN JSONparse(query.str) ELSE JsonFail
        asVec  == isStr /\ IsNumberArray(parsed)
                        /\ (Has(args, "query_type") => args.query_type = "vector")
                        /\ (~Has(args, "query_type") =>
                               Head(query.str) = "[" /\ query.str[Len(query.str)] = "]")
    IN  IF Has(args, "query_type") /\ args.query_type = "vector" /\ isStr /\ ~IsNumberArray(parsed)
        THEN [error |-> <<"Error: Vector query type requires an array of numbers">>]
        ELSE [query |-> IF asVec THEN Arr(parsed.nums) ELSE query]

\* the query_type revision: detection of the type, then its validation;
\* [error |-> text] for an early return, else [query |-> finalQuery]
ResolveQueryType(args) ==
    LET query     == args.query
        isStr     == IsString(query)
        parsed    == IF isStr THEN JSONparse(query.str) ELSE JsonFail
        bracketed == isStr /\ query.str # <<>> /\ Head(query.str) = "["
                           /\ query.str[Len(query.str)] = "]"
        detected  == ~Has(args, "query_type") /\ bracketed /\ IsNumberArray(parsed)
        finalType == IF Has(args, "query_type") THEN args.query_type
                     ELSE IF isStr THEN (IF detected THEN "vector" ELSE "text")
                     ELSE "vector"
        detQuery  == IF detected THEN Arr(parsed.nums) ELSE query
    IN  IF finalType = "vector" /\ isStr
        THEN IF IsNumberArray(parsed)
             THEN [query |-> Arr(parsed.nums)]
             ELSE [error |-> <<"Error: Vector query type requires an array of numbers">>]
        ELSE IF finalType = "text" /\ ~IsString(detQuery)
        THEN [error |-> <<"Error: Text query type requires a string query. Example: \"your search text here\"">>]
        ELSE [query |-> detQuery]

\* a handler that enforces "threshold is required when kiosk_mode is true"
searchStartKioskEnforced(i) ==
    IF Has(i.args, "kiosk_mode") /\ i.args.kiosk_mode /\ ~Has(i.args, "threshold")
    THEN Return(i, <<"Error: threshold is required when kiosk_mode is true">>)
    ELSE
        IF rev = "qtype"
        THEN LET r == ResolveQueryType(i.args) IN
             IF Has(r, "error") THEN Return(i, r.error)
             ELSE Issue(i, "await", searchRequest(i.args, r.query))
        ELSE IF NeedsLookup(i.args)
        THEN Issue(i, "await_lookup", searchLookupRequest(i.args))
        ELSE Issue(i, "await", searchRequest(i.args, i.args.query))

\* the handler up to its first await, or to its early return
searchStart(i) ==
    IF rev = "qtype"
    THEN LET r == ResolveQueryType(i.args) IN
         IF Has(r, "error") THEN Return(i, r.error)
         ELSE Issue(i, "await", searchRequest(i.args, r.query))
    ELSE IF NeedsLookup(i.args)
    THEN Issue(i, "await_lookup", searchLookupRequest(i.args))
    ELSE Issue(i, "await", searchRequest(i.args, i.args.query))

\* a handler that validates the string but forwards it unconverted
searchAfterLookupNoConvert(i, data) ==
    LET t  == TargetNamespace(i.args, data)
        i2 == [i EXCEPT !.target = t]
    IN  IF IsVector(t) /\ Rejected(t, ParseVector(i.args.query.str))
        THEN Return(i2, ValidationError(t))
        ELSE Issue(i2, "await", searchRequest(i.args, i.args.query))

\* from the lookup's response to the search call, or to the validation error
searchAfterLookup(i, data) ==
    LET t  == TargetNamespace(i.args, data)
        i2 == [i EXCEPT !.target = t]
    IN  IF IsVector(t)
        THEN LET arr == ParseVector(i.args.query.str) IN
             IF Rejected(t, arr) THEN Return(i2, ValidationError(t))
             ELSE Issue(i2, "await", searchRequest(i.args, Arr(arr)))
        ELSE Issue(i2, "await", searchRequest(i.args, i.args.query))

SearchResults ==
    {[content |-> "hello", score |-> 92, metadata |-> "{\"k\":1}"],
     [content |-> "world", score |-> 0]}

SearchDatas ==
    {Empty, [results |-> <<>>]}
    \cup {[results |-> <<r>>] : r \in SearchResults}
    \cup {[results |-> <<a, b>>, total |-> 7] : a, b \in SearchResults}

\* one block of the rendering; score is held in hundredths
FormatResult(result, index) ==
    <<"Result ", ToString(index), ":", "\n",
      "Content: ", result.content, "\n",
      "Score: ", IF Has(result, "score") /\ result.score # 0 THEN ToString(result.score) ELSE "N/A", "\n",
      "Metadata: ", IF Has(result, "metadata") THEN result.metadata ELSE "{}", "\n",
      "---">>

\* a rendering that lists the matches last to first
searchResultLastFirst(args, data) ==
    IF ~Has(data, "results") \/ data.results = <<>>
    THEN <<"No results found for query: \"">> \o QueryText(args.query) \o <<"\"">>
    ELSE <<"Search results for \"">> \o QueryText(args.query) \o <<"\" in namespaces [">>
         \o Join([k \in DOMAIN args.namespaces |-> <<args.namespaces[k]>>], <<", ">>)
         \o <<"]:\n\n">>
         \o Join([k \in DOMAIN data.results |->
                      FormatResult(data.results[Len(data.results) + 1 - k], k)], <<"\n">>)
         \o <<"\n\nTotal results: ",
              ToString(IF Has(data, "total") /\ data.total # 0 THEN data.total
                       ELSE Len(data.results))>>

searchResult(args, data) ==
    IF ~Has(data, "results") \/ data.results = <<>>
    THEN <<"No results found for query: \"">> \o QueryText(args.query) \o <<"\"">>
    ELSE <<"Search results for \"">> \o QueryText(args.query) \o <<"\" in namespaces [">>
         \o Join([k \in DOMAIN args.namespaces |-> <<args.namespaces[k]>>], <<", ">>)
         \o <<"]:\n\n">>
         \o Join([k \in DOMAIN data.results |-> FormatResult(data.results[k], k)], <<"\n">>)
         \o <<"\n\nTotal results: ",
              ToString(IF Has(data, "total") /\ data.total # 0 THEN data.total
                       ELSE Len(data.results))>>

(***************************************************************************)
(* Answer                                                                  *)
(***************************************************************************)
AnswerChoices ==
    [threshold    |-> {0, 8},
     top_k        |-> {3},
     kiosk_mode   |-> {TRUE},
     type         |-> {"vector"},
     temperature  |-> {0, 12},
     aiModel      |-> {"", "deepseek.r1-v1:0"},
     chatHistory  |-> {<<>>, <<[role |-> "user", content |-> "hi"]>>},
     headerPrompt |-> {"", "Be brief."},
     footerPrompt |-> {"", "Cite sources."}]

\* the query_type revision's schema has no type parameter
AnswerArgs ==
    {o @@ [namespace |-> "docs", query |-> "What is X?"] :
        o \in OptionSets(AnswerChoices,
                         IF rev = "qtype" THEN DOMAIN AnswerChoices \ {"type"}
                         ELSE DOMAIN AnswerChoices, MaxOpts)}

DefaultAnswerTopK == 5

DefaultTemperature == 7

\* a parameter with its default
Get(args, f, default) == IF Has(args, f) THEN args[f] ELSE default

\* if (x) for a string parameter
TruthyString(args, f) == Has(args, f) /\ args[f] # ""

\* a body that tests aiModel against undefined instead of for truthiness
answerRequestBodyModelDefined(args) ==
    LET base == IF rev = "qtype"
                THEN [namespace   |-> args.namespace,
                      query       |-> args.query,
                      top_k       |-> Get(args, "top_k", DefaultAnswerTopK),
                      kiosk_mode  |-> Get(args, "kiosk_mode", FALSE),
                      temperature |-> Get(args, "temperature", DefaultTemperature)]
                ELSE [namespace   |-> args.namespace,
                      query       |-> args.query,
                      top_k       |-> Get(args, "top_k", DefaultAnswerTopK),
                      type        |-> Get(args, "type", "text"),
                      kiosk_mode  |-> Get(args, "kiosk_mode", FALSE),
                      temperature |-> Get(args, "temperature", DefaultTemperature)]
        b1 == WithIf(base, Has(args, "threshold"), "threshold", Get(args, "threshold", 0))
        b2 == WithIf(b1, Has(args, "aiModel"), "aiModel", Get(args, "aiModel", ""))
        b3 == WithIf(b2, Has(args, "chatHistory") /\ Len(Get(args, "chatHistory", <<>>)) > 0,
                     "chatHistory", Get(args, "chatHistory", <<>>))
        b4 == WithIf(b3, TruthyString(args, "headerPrompt"), "headerPrompt",
                     Get(args, "headerPrompt", ""))
    IN  WithIf(b4, TruthyString(args, "footerPrompt"), "footerPrompt",
               Get(args, "footerPrompt", ""))

\* requestBody of the answer handler: "mono" and "list" always send type and
\* temperature; "qtype" sends no type
answerRequestBody(args) ==
    LET base == IF rev = "qtype"
                THEN [namespace   |-> args.namespace,
                      query       |-> args.query,
                      top_k       |-> Get(args, "top_k", DefaultAnswerTopK),
                      kiosk_mode  |-> Get(args, "kiosk_mode", FALSE),
                      temperature |-> Get(args, "temperature", DefaultTemperature)]
                ELSE [namespace   |-> args.namespace,
                      query       |-> args.query,
                      top_k       |-> Get(args, "top_k", DefaultAnswerTopK),
                      type        |-> Get(args, "type", "text"),
                      kiosk_mode  |-> Get(args, "kiosk_mode", FALSE),
                      temperature |-> Get(args, "temperature", DefaultTemperature)]
        b1 == WithIf(base, Has(args, "threshold"), "threshold", Get(args, "threshold", 0))
        b2 == WithIf(b1, TruthyString(args, "aiModel"), "aiModel", Get(args, "aiModel", ""))
        b3 == WithIf(b2, Has(args, "chatHistory") /\ Len(Get(args, "chatHistory", <<>>)) > 0,
                     "chatHistory", Get(args, "chatHistory", <<>>))
        b4 == WithIf(b3, TruthyString(args, "headerPrompt"), "headerPrompt",
                     Get(args, "headerPrompt", ""))
    IN  WithIf(b4, TruthyString(args, "footerPrompt"), "footerPrompt",
               Get(args, "footerPrompt", ""))

answerRequest(args) ==
    makeApiRequestConfig("POST", API_ENDPOINTS.answer, answerRequestBody(args))

\* the answer endpoint's payloads; json is JSON.stringify(data, null, 2)
AnswerDatas ==
    {[answer |-> "X is Y.", json |-> "{\"answer\":\"X is Y.\"}"],
     [response |-> "See the docs.", json |-> "{\"response\":\"See the docs.\"}"],
     [answer |-> "", response |-> "Fallback.", json |-> "{\"answer\":\"\",\"response\":\"Fallback.\"}"],
     [answer |-> "", json |-> "{\"answer\":\"\"}"],
     [json |-> "{\"status\":\"empty\"}"]}

\* a rendering that falls back on a missing field only, not on an empty one
answerResultPresence(args, data) ==
    <<"AI Answer for \"", args.query, "\" in namespace \"", args.namespace, "\":\n\n",
      IF Has(data, "answer") THEN data.answer
      ELSE IF Has(data, "response") THEN data.response
      ELSE data.json>>

\* data.answer || data.response || JSON.stringify(data, null, 2)
answerResult(args, data) ==
    <<"AI Answer for \"", args.query, "\" in namespace \"", args.namespace, "\":\n\n",
      IF TruthyString(data, "answer") THEN data.answer
      ELSE IF TruthyString(data, "response") THEN data.response
      ELSE data.json>>

(***************************************************************************)
(* File upload                                                             *)
(* A path is the sequence of its pieces; "." and "/" are pieces of their   *)
(* own, and no other piece holds either.                                   *)
(***************************************************************************)
PathPieces == {".", "/", "report", "pdf", "PDF", "exe"}

Paths == SeqsUpTo(PathPieces, MaxPathLen)

MiB == 1024 * 1024

MaxFileMB == 10

\* statSync: the size in bytes, or ENOENT
FileSizes == {0, MaxFileMB * MiB - 1, MaxFileMB * MiB, MaxFileMB * MiB + 1, 2 * MaxFileMB * MiB}

Stats == {[enoent |-> TRUE]} \cup {[size |-> n] : n \in FileSizes}

UploadFileArgs == {[namespace_name |-> n, file_path |-> p] : n \in {"docs"}, p \in Paths}

ToLowerCase(path) == [k \in DOMAIN path |-> IF path[k] = "PDF" THEN "pdf" ELSE path[k]]

\* String.prototype.lastIndexOf, counted from 1; 0 when c does not occur
RECURSIVE LastIndexOf(_, _)
LastIndexOf(s, c) ==
    IF s = <<>> THEN 0
    ELSE IF s[Len(s)] = c THEN Len(s)
    ELSE LastIndexOf(SubSeq(s, 1, Len(s) - 1), c)

\* filePath.toLowerCase().substring(filePath.lastIndexOf('.')): substring(-1)
\* is the whole string
FileExtension(path) ==
    LET k == LastIndexOf(path, ".") IN
    SubSeq(ToLowerCase(path), IF k = 0 THEN 1 ELSE k, Len(path))

allowedExtensions ==
    <<".pdf", ".docx", ".xlsx", ".json", ".txt", ".csv", ".md">>

\* the allow-list as paths' pieces
AllowedPieces ==
    {<<".", e>> : e \in {"pdf", "docx", "xlsx", "json", "txt", "csv", "md"}}

\* a size test on whole megabytes
TooLargeWholeMB(size) == size \div MiB > MaxFileMB

\* fileSizeInMB > 10, with fileSizeInMB = stats.size / (1024 * 1024)
TooLarge(size) == size > MaxFileMB * MiB

\* fileSizeInMB.toFixed(2)
SizeText(size) ==
    LET h == (size * 100 + MiB \div 2) \div MiB IN
    <<ToString(h \div 100), ".", ToString((h % 100) \div 10), ToString(h % 10)>>

\* path.basename
basename(path) ==
    LET k == LastIndexOf(path, "/") IN SubSeq(path, k + 1, Len(path))

\* the Error thrown before any request, or Empty when the file passes
uploadFilePrecondition(path, stat) ==
    IF Has(stat, "enoent")
    THEN [message |-> <<"ENOENT: no such file or directory, stat '">> \o path \o <<"'">>]
    ELSE IF TooLarge(stat.size)
    THEN [message |-> <<"File size (">> \o SizeText(stat.size)
                      \o <<"MB) exceeds maximum allowed size of 10MB">>]
    ELSE IF FileExtension(path) \notin AllowedPieces
    THEN [message |-> <<"File type '">> \o FileExtension(path)
                      \o <<"' is not supported. Allowed types: ">>
                      \o Join([k \in DOMAIN allowedExtensions |-> <<allowedExtensions[k]>>], <<", ">>)]
    ELSE Empty

\* the axios.post of uploadFile
\* a multipart request built from the form's own headers only
uploadFileRequestFormHeadersOnly(args) ==
    [method  |-> "POST",
     url     |-> NamespaceUrl(args.namespace_name, "/upload-file"),
     headers |-> ("content-type" :> "multipart/form-data"),
     data    |-> [file |-> args.file_path, fileName |-> basename(args.file_path)]]

uploadFileRequest(args) ==
    [method  |-> "POST",
     url     |-> NamespaceUrl(args.namespace_name, "/upload-file"),
     headers |-> ("x-api-key" :> apiKey) @@ ("content-type" :> "multipart/form-data"),
     data    |-> [file |-> args.file_path, fileName |-> basename(args.file_path)]]

\* catch block of uploadFile: the Error it throws
uploadFileCatch(error) ==
    IF Has(error, "response")
    THEN [message |-> ResponseErrorMessage(error.response)]
    ELSE [message |-> <<"File upload error: ">> \o error.message]

UploadDatas ==
    {[fileName |-> "report.pdf", json |-> "{\"fileName\":\"report.pdf\"}"],
     [json |-> "{\"status\":\"queued\"}"]}

uploadFileResult(args, data) ==
    <<"Successfully uploaded file \"", Get(data, "fileName", "undefined"),
      "\" to namespace \"", args.namespace_name, "\":\n", data.json>>

\* the handler up to the request, or to the error of a failed precondition
uploadFileStart(i, stat) ==
    LET e  == uploadFilePrecondition(i.args.file_path, stat)
        i2 == [i EXCEPT !.target = stat]
    IN  IF e # Empty THEN Catch(i2, uploadFileCatch(e))
        ELSE Issue(i2, "await", uploadFileRequest(i.args))

(***************************************************************************)
(* Handlers as actions                                                     *)
(***************************************************************************)
\* the server is connected and handles one invocation at a time
Idle == phase = "running" /\ exitCode = -1 /\ inv.pc = "idle"

Fixed == <<entry, rev, phase, env, envFile, apiKey, warned, exitCode, server>>

listNamespaces ==
    /\ Idle
    /\ inv' = Issue(NewInv("list-namespaces", Empty), "await", listNamespacesRequest(Empty))
    /\ UNCHANGED <<Fixed, Aside>>

createNamespace ==
    /\ Idle
    /\ \E a \in CreateNamespaceArgs :
          inv' = Issue(NewInv("create-namespace", a), "await", createNamespaceRequest(a))
    /\ UNCHANGED <<Fixed, Aside>>

deleteNamespace ==
    /\ Idle
    /\ \E a \in NameArgs :
          inv' = Issue(NewInv("delete-namespace", a), "await", deleteNamespaceRequest(a))
    /\ UNCHANGED <<Fixed, Aside>>

uploadText ==
    /\ Idle
    /\ \E a \in UploadTextArgs :
          inv' = Issue(NewInv("upload-text", a), "await", uploadTextRequest(a))
    /\ UNCHANGED <<Fixed, Aside>>

uploadVectors ==
    /\ Idle
    /\ \E a \in UploadVectorsArgs :
          inv' = Issue(NewInv("upload-vectors", a), "await", uploadVectorsRequest(a))
    /\ UNCHANGED <<Fixed, Aside>>

deleteData ==
    /\ Idle
    /\ \E a \in IdsArgs :
          inv' = Issue(NewInv("delete-data", a), "await", deleteDataRequest(a))
    /\ UNCHANGED <<Fixed, Aside>>

\* get-data and upload-file are tools of the modular server only
getData ==
    /\ Idle /\ rev # "mono"
    /\ \E a \in IdsArgs :
          inv' = Issue(NewInv("get-data", a), "await", getDataRequest(a))
    /\ UNCHANGED <<Fixed, Aside>>

uploadFile ==
    /\ Idle /\ rev # "mono"
    /\ \E a \in UploadFileArgs, st \in Stats :
          inv' = uploadFileStart(NewInv("upload-file", a), st)
    /\ UNCHANGED <<Fixed, Aside>>

search ==
    /\ Idle
    /\ \E a \in SearchArgs : inv' = searchStart(NewInv("search", a))
    /\ UNCHANGED <<Fixed, Aside>>

answer ==
    /\ Idle
    /\ \E a \in AnswerArgs :
          inv' = Issue(NewInv("answer", a), "await", answerRequest(a))
    /\ UNCHANGED <<Fixed, Aside>>

\* the payloads a 2xx response to the pending call may carry
SuccessDatas(i) ==
    IF i.pc = "await_lookup"
    THEN (IF rev = "list" THEN ListDatas ELSE DetailDatas(i.args.namespaces[1]))
    ELSE CASE i.tool = "list-namespaces" -> ListDatas
           [] i.tool = "search"          -> SearchDatas
           [] i.tool = "answer"          -> AnswerDatas
           [] i.tool = "upload-file"     -> UploadDatas
           [] OTHER                      -> Payloads

Replies(i) == Failures \cup {Ok(d) : d \in SuccessDatas(i)}

\* the text a handler returns after its last call succeeded
ResultText(tool, args, data) ==
    CASE tool = "list-namespaces"  -> listNamespacesResult(args, data)
      [] tool = "create-namespace" -> createNamespaceResult(args, data)
      [] tool = "delete-namespace" -> deleteNamespaceResult(args, data)
      [] tool = "upload-text"      -> uploadTextResult(args, data)
      [] tool = "upload-vectors"   -> uploadVectorsResult(args, data)
      [] tool = "delete-data"      -> deleteDataResult(args, data)
      [] tool = "get-data"         -> getDataResult(args, data)
      [] tool = "upload-file"      -> uploadFileResult(args, data)
      [] tool = "search"           -> searchResult(args, data)
      [] tool = "answer"           -> answerResult(args, data)

\* a handler that takes a lookup answered 404 for a missing namespace, and
\* searches with the string
ResumeLookupNotFoundAsText(i, resp) ==
    IF resp.status = 404 /\ i.pc = "await_lookup"
    THEN Issue(i, "await", searchRequest(i.args, i.args.query))
    ELSE IF ~IsOk(resp)
    THEN Catch(i, IF i.tool = "upload-file" THEN uploadFileCatch(AxiosError(resp))
                  ELSE makeApiRequestCatch(AxiosError(resp)))
    ELSE IF i.pc = "await_lookup" THEN searchAfterLookup(i, resp.data)
    ELSE Return(i, ResultText(i.tool, i.args, resp.data))

\* a handler that takes a failed lookup for a namespace that is not a vector
\* namespace, and searches with the string
ResumeLookupFailureAsText(i, resp) ==
    IF ~IsOk(resp) /\ i.pc = "await_lookup"
    THEN Issue(i, "await", searchRequest(i.args, i.args.query))
    ELSE IF ~IsOk(resp)
    THEN Catch(i, IF i.tool = "upload-file" THEN uploadFileCatch(AxiosError(resp))
                  ELSE makeApiRequestCatch(AxiosError(resp)))
    ELSE IF i.pc = "await_lookup" THEN searchAfterLookup(i, resp.data)
    ELSE Return(i, ResultText(i.tool, i.args, resp.data))

\* a handler whose promise is never settled when the connection failed
ResumeHangsOffline(i, resp) ==
    IF ~IsOk(resp) /\ resp.status = 0 THEN [i EXCEPT !.pc = "lost"]
    ELSE IF ~IsOk(resp)
    THEN Catch(i, IF i.tool = "upload-file" THEN uploadFileCatch(AxiosError(resp))
                  ELSE makeApiRequestCatch(AxiosError(resp)))
    ELSE IF i.pc = "await_lookup" THEN searchAfterLookup(i, resp.data)
    ELSE Return(i, ResultText(i.tool, i.args, resp.data))

\* a handler that sends a failed call once more before giving up
ResumeRetryOnce(i, resp) ==
    IF ~IsOk(resp) /\ Len(i.statuses) = Len(i.calls) /\ Len(i.statuses) < 3
       /\ (Len(i.statuses) = 1 \/ IsOk([status |-> i.statuses[Len(i.statuses) - 1]]))
    THEN Issue(i, i.pc, i.calls[Len(i.calls)])
    ELSE IF ~IsOk(resp)
    THEN Catch(i, IF i.tool = "upload-file" THEN uploadFileCatch(AxiosError(resp))
                  ELSE makeApiRequestCatch(AxiosError(resp)))
    ELSE IF i.pc = "await_lookup" THEN searchAfterLookup(i, resp.data)
    ELSE Return(i, ResultText(i.tool, i.args, resp.data))

\* the handler from the settling of its pending call on
Resume(i, resp) ==
    IF ~IsOk(resp)
    THEN Catch(i, IF i.tool = "upload-file" THEN uploadFileCatch(AxiosError(resp))
                  ELSE makeApiRequestCatch(AxiosError(resp)))
    ELSE IF i.pc = "await_lookup" THEN searchAfterLookup(i, resp.data)
    ELSE Return(i, ResultText(i.tool, i.args, resp.data))

\* the pending HTTP call settles and the handler runs on
Respond ==
    /\ phase = "running" /\ exitCode = -1
    /\ inv.pc \in {"await", "await_lookup"}
    /\ \E resp \in Replies(inv) : inv' = Resume(Settle(inv, resp), resp)
    /\ UNCHANGED <<Fixed, Aside>>

\* the handler's return value (or its exception) goes back to the client
Deliver ==
    /\ phase = "running" /\ exitCode = -1
    /\ inv.pc = "done"
    /\ inv' = IdleInv
    /\ UNCHANGED <<Fixed, Aside>>

(***************************************************************************)
(* Specifications                                                          *)
(***************************************************************************)
\* a server that started with a usable credential and is connected
Init ==
    /\ entry = "direct"
    /\ rev \in Revs
    /\ phase = "running"
    /\ env = (KEY :> "mk_live_4f9a2c7e1b")
    /\ envFile = <<>>
    /\ apiKey = env[KEY]
    /\ warned = FALSE
    /\ exitCode = -1
    /\ server = "connected"
    /\ inv = IdleInv
    /\ AsideInit

Next ==
    \/ listNamespaces \/ createNamespace \/ deleteNamespace
    \/ uploadText \/ uploadVectors \/ deleteData \/ getData
    \/ uploadFile \/ search \/ answer
    \/ Respond \/ Deliver

Spec == Init /\ [][Next]_vars

\* the process from its launch on, serving the namespace tools and the file
\* upload once connected
StartupNext ==
    \/ CliCheck \/ LoadEnv \/ CheckKey \/ CreateServer \/ Connect
    \/ listNamespaces \/ createNamespace \/ deleteNamespace \/ uploadFile
    \/ Respond \/ Deliver

StartupSpec == StartupInit /\ [][StartupNext]_vars

(***************************************************************************)
(* Properties                                                              *)
(***************************************************************************)
Active == inv.pc # "idle"

IsTool(t) == Active /\ inv.tool = t

Done == Active /\ inv.pc = "done"

\* the positions, in the invocation's calls, of the calls to url
CallsTo(url) == {k \in DOMAIN inv.calls : inv.calls[k].url = url}

LastStatus == inv.statuses[Len(inv.statuses)]

\* the last call the invocation issued did not succeed
CallFailed == Active /\ inv.statuses # <<>> /\ LastStatus \notin 200..299

\* upload-file ended without issuing its call
PreconditionFailed == IsTool("upload-file") /\ inv.pc = "done" /\ inv.calls = <<>>

\* search ended without issuing the search call although no call failed
ValidationFailed ==
    IsTool("search") /\ inv.pc = "done" /\ ~CallFailed /\ CallsTo(API_ENDPOINTS.search) = {}

\* the first piece of each text the search handler returns for a rejected query
ValidationTexts ==
    {"Error: Query string could not be parsed into a valid ",
     "Error: Vector query type requires an array of numbers",
     "Error: Text query type requires a string query. Example: \"your search text here\""}

\* the text ends with the message of the failure underneath
CarriesUnderlying ==
    IF LastStatus = 0 THEN inv.result[Len(inv.result)] \in NetMessages
    ELSE inv.result[Len(inv.result)] \in {b.json : b \in ErrBodies}

\* C1 as stated: every failure of a handler, of its outbound call or of a
\* local precondition, ends in a returned text that starts with the prefix of
\* the operation, and no invocation ends by raising an exception.
C1_AsStated ==
    (Done /\ (CallFailed \/ PreconditionFailed \/ ValidationFailed))
        => /\ ~inv.raised
           /\ Len(inv.result) >= 2
           /\ inv.result[1] = ErrorPrefix(inv.tool)

\* C1, amended: no invocation ends by raising an exception; a failed outbound
\* call and a failed upload-file precondition end in a returned text made of
\* the prefix of the operation and the underlying message; a query the search
\* handler rejects ends in a returned text that starts with "Error: ", without
\* the prefix of the operation.
C1_ErrorsAreReturnedTexts ==
    Done => /\ ~inv.raised
            /\ (CallFailed \/ PreconditionFailed)
                   => /\ Len(inv.result) >= 2
                      /\ inv.result[1] = ErrorPrefix(inv.tool)
            /\ CallFailed => CarriesUnderlying
            /\ ValidationFailed => inv.result[1] \in ValidationTexts

\* a search whose call failed after its lookup succeeded has returned its text
C1_Witness ==
    /\ Done /\ IsTool("search") /\ CallFailed
    /\ inv.statuses = <<200, 500>>
    /\ inv.result[1] = "Error searching: "

\* the calls that carry a threshold
ThresholdCalls == CallsTo(API_ENDPOINTS.search) \cup CallsTo(API_ENDPOINTS.answer)

\* C2: the body of every search and answer request has a threshold field
\* exactly when the caller supplied a threshold, and then the caller's value,
\* 0 included.
C2_ThresholdIffSupplied ==
    (IsTool("search") \/ IsTool("answer"))
        => \A k \in ThresholdCalls :
              LET body == inv.calls[k].data IN
              /\ Has(body, "threshold") <=> Has(inv.args, "threshold")
              /\ Has(inv.args, "threshold") => body.threshold = inv.args.threshold

\* a search request went out with the threshold 0 the caller supplied
C2_Witness ==
    /\ IsTool("search") /\ Has(inv.args, "threshold") /\ inv.args.threshold = 0
    /\ \E k \in ThresholdCalls :
          Has(inv.calls[k].data, "threshold") /\ inv.calls[k].data.threshold = 0

\* the numbers the string query of the invocation parses to
ParsedQuery == ParseVector(inv.args.query.str)

\* C3: a search with a string query against a vector namespace, whose string
\* parses to no number or to a number of components other than the
\* namespace's dimension, never calls the search endpoint and returns the
\* validation error.
C3_BadVectorStringRejected ==
    (/\ IsTool("search") /\ IsString(inv.args.query) /\ IsVector(inv.target)
     /\ \/ Len(ParsedQuery) = 0
        \/ VectorDimension(inv.target) # 0 /\ Len(ParsedQuery) # VectorDimension(inv.target))
        => /\ inv.pc = "done" /\ ~inv.raised
           /\ CallsTo(API_ENDPOINTS.search) = {}
           /\ inv.result[1] = "Error: Query string could not be parsed into a valid "

\* one component was given to a namespace of dimension 2
C3_Witness ==
    /\ IsTool("search") /\ IsString(inv.args.query) /\ IsVector(inv.target)
    /\ Len(ParsedQuery) = 1 /\ VectorDimension(inv.target) = 2
    /\ inv.pc = "done" /\ Len(inv.calls) = 1

\* C4: a search whose query is the comma-separated string of d numbers,
\* against a vector namespace of dimension d, sends the array of these numbers,
\* in order, as the query of the search request, which follows the lookup.
C4_NumericStringConverted ==
    (IsTool("search") /\ IsString(inv.args.query) /\ IsVector(inv.target))
        => \A nums \in SeqsUpTo({1, 2}, MaxTokens) :
              (/\ nums # <<>> /\ VectorDimension(inv.target) = Len(nums)
               /\ inv.args.query.str = ArrayToString(nums))
                  => /\ Len(inv.calls) = 2
                     /\ inv.calls[1].method = "GET"
                     /\ inv.calls[2].url = API_ENDPOINTS.search
                     /\ inv.calls[2].data.query = Arr(nums)

\* "1,2" went to a namespace of dimension 2 as the array [1, 2]
C4_Witness ==
    /\ IsTool("search") /\ inv.args.query = Str(<<"1", ",", "2">>)
    /\ IsVector(inv.target) /\ VectorDimension(inv.target) = 2
    /\ Len(inv.calls) = 2 /\ inv.calls[2].data.query = Arr(<<1, 2>>)

\* C5: a search whose query is an array makes no namespace lookup, and the
\* query of its search request is the input array.
C5_ArrayForwardedUnchanged ==
    (IsTool("search") /\ ~IsString(inv.args.query))
        => /\ \A k \in DOMAIN inv.calls :
                 /\ inv.calls[k].method = "POST"
                 /\ inv.calls[k].url = API_ENDPOINTS.search
                 /\ inv.calls[k].data.query = inv.args.query
           /\ rev # "qtype" => Len(inv.calls) = 1

\* the array [2, 1] went out to a namespace list that names a text namespace
C5_Witness ==
    /\ IsTool("search") /\ inv.args.query = Arr(<<2, 1>>)
    /\ inv.args.namespaces = <<"docs">>
    /\ Len(inv.calls) = 1 /\ inv.calls[1].data.query = Arr(<<2, 1>>)
    /\ inv.statuses = <<200>>

\* C6: in the revisions that look the namespace up, a search with a string
\* query whose namespace the lookup does not report as a vector namespace
\* sends the string itself as the query of the search request.
C6_TextStringVerbatim ==
    (/\ IsTool("search") /\ rev \in {"list", "mono"} /\ IsString(inv.args.query)
     /\ Len(inv.args.namespaces) > 0
     /\ inv.statuses # <<>> /\ inv.statuses[1] = 200
     /\ ~(Has(inv.target, "type") /\ inv.target.type = "vector"))
        => /\ Len(inv.calls) = 2
           /\ inv.calls[2].url = API_ENDPOINTS.search
           /\ inv.calls[2].data.query = inv.args.query

\* "1,2" went to a text namespace as the string
C6_Witness ==
    /\ IsTool("search") /\ inv.args.query = Str(<<"1", ",", "2">>)
    /\ Has(inv.target, "type") /\ inv.target.type = "text"
    /\ Len(inv.calls) = 2 /\ inv.calls[2].data.query = Str(<<"1", ",", "2">>)

\* the extension of the uploaded path: what follows its last ".", lower-cased
UploadExtension ==
    LET p == inv.args.file_path IN
    IF \E k \in DOMAIN p : p[k] = "."
    THEN LET k == CHOOSE j \in DOMAIN p : p[j] = "." /\ \A m \in DOMAIN p : m > j => p[m] # "."
         IN  [m \in 1..(Len(p) - k) |-> IF p[k + m] = "PDF" THEN "pdf" ELSE p[k + m]]
    ELSE <<"none">>

AllowListed == UploadExtension \in {<<"pdf">>, <<"docx">>, <<"xlsx">>, <<"json">>, <<"txt">>, <<"csv">>, <<"md">>}

TenMiB == 10 * 1024 * 1024

\* C7: an upload-file of an existing file of exactly 10 MiB with an
\* allow-listed extension issues its network call; a file one byte larger, an
\* extension outside the list or a path that does not exist ends in an error
\* text with no network call.
C7_UploadPreconditions ==
    IsTool("upload-file")
        => /\ (Has(inv.target, "size") /\ inv.target.size = TenMiB /\ AllowListed)
                => /\ Len(inv.calls) = 1
                   /\ inv.calls[1].url = NamespaceUrl(inv.args.namespace_name, "/upload-file")
           /\ (\/ Has(inv.target, "enoent")
               \/ Has(inv.target, "size") /\ inv.target.size = TenMiB + 1
               \/ ~AllowListed)
                => /\ inv.calls = <<>>
                   /\ inv.pc = "done" /\ ~inv.raised
                   /\ inv.result[1] = "Error uploading file: "
                   /\ Len(inv.result) > 2

\* report.PDF of exactly 10 MiB was sent
C7_Witness ==
    /\ IsTool("upload-file")
    /\ inv.args.file_path = <<"report", ".", "PDF">>
    /\ Has(inv.target, "size") /\ inv.target.size = TenMiB
    /\ Len(inv.calls) = 1 /\ inv.statuses = <<200>>

\* C8 as stated: every failed outbound call falls into one of four classes:
\* 401 gives "Unauthorized", 403 gives "Forbidden", another response gives
\* "API Error" with the status and the body, and no response gives "Network
\* Error" with the underlying message.
C8_AsStated ==
    (Done /\ CallFailed)
        => /\ LastStatus = 401 => inv.result[2] = "Unauthorized: Invalid API key. Status: "
           /\ LastStatus = 403 => inv.result[2] = "Forbidden: Check your API key. Status: "
           /\ LastStatus \notin {0, 401, 403}
                 => /\ inv.result[2] = "API Error ("
                    /\ inv.result[3] = ToString(LastStatus)
                    /\ inv.result[5] \in {b.json : b \in ErrBodies}
           /\ LastStatus = 0
                 => /\ inv.result[2] = "Network Error: "
                    /\ inv.result[3] \in NetMessages

\* the credential check has run
Checked == phase \notin {"cli", "load", "check"}

\* C9: a process whose credential is absent or empty once the environment and
\* the .env file are read ends with exit code 1 with no server created, no
\* channel connected and no call made; whoever makes a call has a credential.
C9_NoCredentialNoStart ==
    /\ (Checked /\ ~Truthy(env))
          => /\ exitCode = 1 /\ phase = "exited"
             /\ server = "none"
             /\ inv = IdleInv
    /\ (Active /\ inv.calls # <<>>) => (Truthy(env) /\ apiKey = env[KEY] /\ apiKey # "")

\* a .env file that sets the credential to the empty string ended the process
C9_Witness ==
    /\ entry = "direct" /\ phase = "exited" /\ exitCode = 1
    /\ envFile = <<[key |-> KEY, value |-> ""]>>
    /\ Has(env, KEY) /\ env[KEY] = ""

\* C10 as stated: a process whose credential is the placeholder, or shorter
\* than 10 characters, terminates before any channel is opened.
C10_AsStated ==
    (Checked /\ Truthy(env) /\ (env[KEY] = "your_api_key_here" \/ Len(env[KEY]) < 10))
        => (exitCode # -1 /\ server = "none")

\* C10, amended: a process whose credential is the placeholder, or shorter
\* than 10 characters, writes a warning and goes on with its startup; the
\* warning is written for these credentials only.
C10_PlaceholderOnlyWarns ==
    (Checked /\ Truthy(env))
        => /\ warned <=> (env[KEY] = "your_api_key_here" \/ Len(env[KEY]) < 10)
           /\ exitCode = -1
           /\ phase \in {"configured", "created", "running"}

\* a process started with the placeholder is connected and has made a call
C10_Witness ==
    /\ apiKey = "your_api_key_here" /\ warned
    /\ server = "connected" /\ exitCode = -1
    /\ Active /\ inv.calls # <<>>
    /\ inv.calls[1].headers["x-api-key"] = "your_api_key_here"

\* the optional parameters of answer
AnswerOptional ==
    {"top_k", "threshold", "kiosk_mode", "type", "temperature", "aiModel",
     "chatHistory", "headerPrompt", "footerPrompt"}

\* C11 as stated: the body of every answer request holds the namespace, the
\* query and exactly those optional fields the caller supplied.
C11_AsStated ==
    IsTool("answer")
        => \A k \in DOMAIN inv.calls :
              DOMAIN inv.calls[k].data
                  = {"namespace", "query"} \cup (DOMAIN inv.args \cap AnswerOptional)

\* C11, amended: the body of the answer request always holds namespace, query,
\* top_k, kiosk_mode and temperature (and type, except in the query_type
\* revision), with the caller's value or else the default 5, false, 0.7 and
\* "text"; it holds threshold exactly when supplied, aiModel, headerPrompt and
\* footerPrompt exactly when supplied and not empty, chatHistory exactly when
\* supplied and not empty, each with the caller's value.
C11_AnswerBodyFields ==
    IsTool("answer")
        => /\ Len(inv.calls) = 1
           /\ LET body == inv.calls[1].data
                  args == inv.args
              IN  /\ DOMAIN body =
                        {"namespace", "query", "top_k", "kiosk_mode", "temperature"}
                        \cup (IF rev = "qtype" THEN {} ELSE {"type"})
                        \cup {f \in {"threshold"} : Has(args, f)}
                        \cup {f \in {"aiModel", "headerPrompt", "footerPrompt"} :
                                 Has(args, f) /\ args[f] # ""}
                        \cup {f \in {"chatHistory"} : Has(args, f) /\ args[f] # <<>>}
                  /\ \A f \in DOMAIN body \cap DOMAIN args : body[f] = args[f]
                  /\ ~Has(args, "top_k") => body.top_k = 5
                  /\ ~Has(args, "kiosk_mode") => body.kiosk_mode = FALSE
                  /\ ~Has(args, "temperature") => body.temperature = 7
                  /\ (rev # "qtype" /\ ~Has(args, "type")) => body.type = "text"

\* an answer request went out for a caller who supplied an empty aiModel and
\* no top_k: the body has top_k 5 and no aiModel
C11_Witness ==
    /\ IsTool("answer") /\ Len(inv.calls) = 1
    /\ Has(inv.args, "aiModel") /\ inv.args.aiModel = "" /\ ~Has(inv.args, "top_k")
    /\ inv.calls[1].data.top_k = 5 /\ ~Has(inv.calls[1].data, "aiModel")

\* the caller asked for kiosk mode
KioskMode == Active /\ Has(inv.args, "kiosk_mode") /\ inv.args.kiosk_mode

\* C12: a search or answer invocation with kiosk_mode true is not rejected
\* for lacking a threshold: its primary call carries kiosk_mode true and no
\* threshold field when none was supplied, and the supplied threshold (0.8)
\* otherwise; an invocation that ends without its primary call ends so
\* because its lookup failed or its query was rejected.
C12_KioskWithoutThresholdAllowed ==
    ((IsTool("search") \/ IsTool("answer")) /\ KioskMode)
        => /\ \A k \in ThresholdCalls :
                 LET body == inv.calls[k].data IN
                 /\ body.kiosk_mode = TRUE
                 /\ Has(body, "threshold") <=> Has(inv.args, "threshold")
                 /\ Has(inv.args, "threshold") => body.threshold = inv.args.threshold
           /\ (Done /\ ThresholdCalls = {})
                 => (CallFailed \/ inv.result[1] \in ValidationTexts)
           /\ IsTool("answer") => ThresholdCalls # {}
           /\ (/\ IsTool("search") /\ ~IsString(inv.args.query)
               /\ ~(Has(inv.args, "query_type") /\ inv.args.query_type = "text"))
                 => ThresholdCalls # {}

\* a kiosk-mode search without threshold was answered by the service
C12_Witness ==
    /\ IsTool("search") /\ KioskMode /\ ~Has(inv.args, "threshold")
    /\ inv.args.query = Arr(<<1, 2>>)
    /\ Len(inv.calls) = 1 /\ inv.calls[1].data.kiosk_mode = TRUE
    /\ ~Has(inv.calls[1].data, "threshold")
    /\ inv.statuses = <<200>> /\ inv.pc = "done"

(***************************************************************************)
(* The remote service as a simple store of namespaces                      *)
(***************************************************************************)
\* the position of the namespace called n in the store, 0 when there is none
StoreIndex(s, n) ==
    IF \E k \in DOMAIN s : s[k].namespace_name = n
    THEN CHOOSE k \in DOMAIN s : s[k].namespace_name = n
    ELSE 0

\* what the store answers to a request and what it holds afterwards:
\* GET lists it, POST adds the body's namespace unless the name is taken,
\* DELETE removes the namespace the URL names unless there is none
StoreServe(s, call) ==
    IF call.method = "GET"
    THEN [resp |-> Ok([namespaces |-> s]), store |-> s]
    ELSE IF call.method = "POST"
    THEN IF StoreIndex(s, call.data.namespace_name) # 0
         THEN [resp |-> [status |-> 409, data |-> [json |-> "{\"message\":\"exists\"}"]],
               store |-> s]
         ELSE [resp |-> Ok([json |-> "{\"status\":\"success\"}"]),
               store |-> Append(s, call.data @@ [createdAt |-> "2025-01-01T00:00:00Z",
                                                 itemCount |-> 0])]
    ELSE LET k == StoreIndex(s, call.url[Len(call.url)]) IN
         IF k = 0
         THEN [resp |-> [status |-> 404, data |-> [json |-> "{\"message\":\"not found\"}"]],
               store |-> s]
         ELSE [resp |-> Ok([json |-> "{\"status\":\"success\"}"]),
               store |-> SubSeq(s, 1, k - 1) \o SubSeq(s, k + 1, Len(s))]

\* what a successful create or delete tells the caller about its namespace
ToldAfter(t, i, resp) ==
    IF ~IsOk(resp) \/ i.tool = "list-namespaces" THEN t
    ELSE (i.args.namespace_name :>
             (IF i.tool = "create-namespace" THEN "created" ELSE "deleted")) @@ t

\* the store serves the pending call, or the call does not reach it
StoreRespond ==
    /\ phase = "running" /\ exitCode = -1
    /\ inv.pc = "await"
    /\ \E reached \in BOOLEAN :
          LET served == StoreServe(store, inv.calls[Len(inv.calls)])
              resp   == IF reached THEN served.resp
                        ELSE [status |-> 0, message |-> "connect ECONNREFUSED"]
          IN  /\ inv' = Resume(Settle(inv, resp), resp)
              /\ store' = IF reached THEN served.store ELSE store
              /\ told' = ToldAfter(told, inv, resp)
    /\ UNCHANGED <<Fixed, out, pool>>

StoreNext ==
    \/ listNamespaces \/ createNamespace \/ deleteNamespace
    \/ StoreRespond \/ Deliver

StoreSpec == Init /\ [][StoreNext]_vars

\* the list text has a block for the namespace called n
HasBlock(n) ==
    \E k \in 1..(Len(inv.result) - 1) :
        inv.result[k] = "Namespace: " /\ inv.result[k + 1] = n

\* a list-namespaces invocation has returned the list the service sent
Listed == Done /\ IsTool("list-namespaces") /\ LastStatus = 200

\* C13: against a service that is a simple store, with invocations run one
\* after another, the text of a list-namespaces has a block for every name
\* whose last successful create was not followed by a successful delete, and
\* no block for a name whose last successful delete was not followed by a
\* successful create.
C13_ListFollowsCreateAndDelete ==
    Listed => \A n \in DOMAIN told :
                 /\ told[n] = "created" => HasBlock(n)
                 /\ told[n] = "deleted" => ~HasBlock(n)

\* "docs" was created and deleted, "vecs" was created, and the list shows vecs only
C13_Witness ==
    /\ Listed
    /\ DOMAIN told = {"docs", "vecs"}
    /\ told["docs"] = "deleted" /\ told["vecs"] = "created"
    /\ HasBlock("vecs") /\ ~HasBlock("docs")

\* the service returned no namespace to a list-namespaces
NoNamespaces == Listed /\ (~Has(inv.data, "namespaces") \/ Len(inv.data.namespaces) = 0)

\* a search invocation has returned what the search endpoint sent
Searched ==
    /\ Done /\ IsTool("search")
    /\ CallsTo(API_ENDPOINTS.search) # {} /\ LastStatus = 200

\* the service returned no match to a search
NoMatches == Searched /\ (~Has(inv.data, "results") \/ Len(inv.data.results) = 0)

\* C14: list-namespaces returns exactly "No namespaces found" when the
\* service returns no namespace, and search returns a text that starts with
\* "No results found" when the response holds no match; no other invocation,
\* failed or with items to render, returns a text with either beginning, and
\* neither text starts with the error prefix of its operation.
C14_EmptyResultIsPlainText ==
    Done => /\ NoNamespaces <=> inv.result = <<"No namespaces found">>
            /\ NoMatches <=> inv.result[1] = "No results found for query: \""
            /\ (NoNamespaces \/ NoMatches)
                  => /\ ~inv.raised
                     /\ \A t \in {"list-namespaces", "search"} :
                           ErrorPrefix(t) \notin {inv.result[k] : k \in DOMAIN inv.result}

\* a namespace list that is present and empty gave "No namespaces found"
C14_Witness ==
    /\ Listed /\ Has(inv.data, "namespaces") /\ inv.data.namespaces = <<>>
    /\ inv.result = <<"No namespaces found">>

\* an answer invocation has returned what the answer endpoint sent
Answered == Done /\ IsTool("answer") /\ inv.statuses # <<>> /\ LastStatus = 200

\* what follows the heading of an answer text
AnswerBody == inv.result[Len(inv.result)]

\* the response holds the field with a text that is not empty
NonEmptyField(f) == Has(inv.data, f) /\ inv.data[f] # ""

\* C15 as stated: the answer text carries the answer field when the response
\* has one, otherwise the response field when the response has one, otherwise
\* the raw JSON of the response.
C15_AsStated ==
    Answered =>
        AnswerBody = IF Has(inv.data, "answer") THEN inv.data.answer
                     ELSE IF Has(inv.data, "response") THEN inv.data.response
                     ELSE inv.data.json

\* C15: the answer text carries the answer field when the response has a
\* non-empty one, otherwise the response field when the response has a
\* non-empty one, otherwise the raw JSON of the whole response; the raw JSON
\* is used only if neither field holds a non-empty text.
C15_AnswerFallsBackOnEmpty ==
    Answered =>
        /\ AnswerBody = IF NonEmptyField("answer") THEN inv.data.answer
                        ELSE IF NonEmptyField("response") THEN inv.data.response
                        ELSE inv.data.json
        /\ AnswerBody = inv.data.json
              => ~NonEmptyField("answer") /\ ~NonEmptyField("response")

\* a response with an empty answer and a response field gave the response field
C15_Witness ==
    /\ Answered /\ Has(inv.data, "answer") /\ inv.data.answer = ""
    /\ AnswerBody = "Fallback."

\* the call goes to one of the three endpoints, or below the namespaces one
ToEndpoint(call) ==
    \/ call.url \in {API_ENDPOINTS.namespaces, API_ENDPOINTS.search, API_ENDPOINTS.answer}
    \/ /\ Len(call.url) > Len(API_ENDPOINTS.namespaces)
       /\ SubSeq(call.url, 1, Len(API_ENDPOINTS.namespaces)) = API_ENDPOINTS.namespaces

\* C16: once the process has read its credential, the credential it holds
\* stays the one its environment gave at startup; every outbound call, JSON
\* or multipart, carries an x-api-key header equal to it and goes to one of
\* the three endpoints fixed at startup.
C16_EveryCallCarriesTheCredential ==
    /\ phase \in {"configured", "created", "running"} => apiKey = env[KEY]
    /\ Active => \A k \in DOMAIN inv.calls :
          /\ Has(inv.calls[k].headers, "x-api-key")
          /\ inv.calls[k].headers["x-api-key"] = env[KEY]
          /\ ToEndpoint(inv.calls[k])

\* a multipart upload went out with the key the .env file gave in place of
\* the one of the environment
C16_Witness ==
    /\ Done /\ IsTool("upload-file") /\ Len(inv.calls) = 1
    /\ Has(inv.calls[1].headers, "content-type")
    /\ inv.calls[1].headers["x-api-key"] = "abc123"

(***************************************************************************)
(* The stdout interception                                                 *)
(* A chunk is a string or a Buffer; its text is the sequence of its        *)
(* pieces, where a white space character and a bracket that opens the text *)
(* are pieces of their own. frame tells whether the transport wrote it as  *)
(* a serialised JSON-RPC message.                                          *)
(***************************************************************************)
MaxWrites == 3

StringChunk(text, frame) == [type |-> "string", text |-> text, frame |-> frame]

\* what the stdio transport writes: a serialised message and a newline
Frames ==
    {StringChunk(<<"{", "\"jsonrpc\":\"2.0\",\"id\":1,\"result\":{\"tools\":[]}}", "\n">>, TRUE),
     StringChunk(<<"[", "{\"jsonrpc\":\"2.0\",\"id\":2,\"result\":{}}]", "\n">>, TRUE),
     StringChunk(<<"\n", " ", "{", "\"jsonrpc\":\"2.0\",\"id\":3,\"result\":{}}", "\n">>, TRUE)}

\* console.log("Server started") of the single-file revision
StartedLine == StringChunk(<<"Server", " ", "started", "\n">>, FALSE)

\* what any other code of the process may write
StrayChunks ==
    {StringChunk(<<>>, FALSE),
     StringChunk(<<" ", "\n">>, FALSE),
     StringChunk(<<"[", "debug]", " ", "ready", "\n">>, FALSE),
     StringChunk(<<"{", " ", "a:", " ", "1", " ", "}", "\n">>, FALSE),
     [type |-> "object", text |-> <<"{", "\"level\":\"info\"}", "\n">>, frame |-> FALSE]}

\* String.prototype.startsWith of one character
startsWith(s, c) == s # <<>> /\ s[1] = c

\* an override that tests the chunk as it is, not its trimmed text
stdoutWriteUntrimmed(o, chunk) ==
    IF chunk.type = "string" /\ (startsWith(chunk.text, "{") \/ startsWith(chunk.text, "["))
    THEN [o EXCEPT !.stdout = Append(@, chunk), !.written = Append(@, chunk)]
    ELSE [o EXCEPT !.stderr = Append(@, chunk), !.written = Append(@, chunk)]

\* the function installed as process.stdout.write
stdoutWrite(o, chunk) ==
    IF /\ chunk.type = "string"
       /\ (startsWith(Trim(chunk.text), "{") \/ startsWith(Trim(chunk.text), "["))
    THEN [o EXCEPT !.stdout = Append(@, chunk), !.written = Append(@, chunk)]
    ELSE [o EXCEPT !.stderr = Append(@, chunk), !.written = Append(@, chunk)]

\* the guard bounds the run; every write goes through the override
CanWrite == Len(out.written) < MaxWrites

\* the transport sends a response
TransportSend ==
    /\ CanWrite
    /\ \E chunk \in Frames : out' = stdoutWrite(out, chunk)
    /\ UNCHANGED <<Fixed, inv, store, told, pool>>

\* main() logs after the server connected
ConsoleLog ==
    /\ CanWrite /\ rev = "mono"
    /\ out' = stdoutWrite(out, StartedLine)
    /\ UNCHANGED <<Fixed, inv, store, told, pool>>

\* any other code of the process writes
StrayWrite ==
    /\ CanWrite
    /\ \E chunk \in StrayChunks : out' = stdoutWrite(out, chunk)
    /\ UNCHANGED <<Fixed, inv, store, told, pool>>

WriteNext == TransportSend \/ ConsoleLog \/ StrayWrite

WriteSpec == Init /\ [][WriteNext]_vars


\* the first piece of a text that is not white space, "" if there is none
RECURSIVE FirstVisible(_)
FirstVisible(text) ==
    IF text = <<>> THEN ""
    ELSE IF text[1] \in {" ", "\n", "\t"} THEN FirstVisible(Tail(text))
    ELSE text[1]

\* a string whose trimmed text starts with '{' or '['
FrameShaped(chunk) == chunk.type = "string" /\ FirstVisible(chunk.text) \in {"{", "["}

\* the chunks written so far are split between the two sinks by their shape,
\* in the order they were written
RoutedByShape ==
    /\ out.stdout = SelectSeq(out.written, FrameShaped)
    /\ out.stderr = SelectSeq(out.written, LAMBDA c : ~FrameShaped(c))

IsLookup(call) == call.method = "GET" /\ call.url # API_ENDPOINTS.search

\* C18: no call is retried. An invocation has issued at most one call, except
\* a search with a string query, which has issued at most a namespace lookup
\* and then, only once the lookup has succeeded, one search call; a call is
\* issued only when every earlier one has settled, and a call that failed is
\* the last call of its invocation.
C18_NoCallIsRetried ==
    Active =>
        /\ Len(inv.statuses) <= Len(inv.calls)
        /\ Len(inv.calls) <= Len(inv.statuses) + 1
        /\ \A k \in DOMAIN inv.statuses :
              inv.statuses[k] \notin 200..299 => k = Len(inv.calls) /\ inv.pc = "done"
        /\ IF IsTool("search") /\ Has(inv.args.query, "str")
           THEN /\ Len(inv.calls) <= 2
                /\ Len(inv.calls) = 2 =>
                      /\ IsLookup(inv.calls[1]) /\ inv.statuses[1] = 200
                      /\ inv.calls[2].url = API_ENDPOINTS.search
                      /\ inv.calls[2].method = "POST"
           ELSE Len(inv.calls) <= 1

\* a search with a string query looked its namespace up, then searched, and
\* ended when the search call failed
C18_Witness ==
    /\ Done /\ IsTool("search") /\ Has(inv.args.query, "str")
    /\ Len(inv.calls) = 2 /\ Len(inv.statuses) = 2
    /\ inv.statuses[1] = 200 /\ inv.statuses[2] = 500


\* the positions, in order, at which the returned text holds the piece
PositionsOf(piece) ==
    SelectSeq([k \in 1..Len(inv.result) |-> k], LAMBDA k : inv.result[k] = piece)

\* the number a field holds, or "N/A" for a missing or zero one
ShownNumber(item, field) ==
    IF Has(item, field) /\ item[field] # 0 THEN ToString(item[field]) ELSE "N/A"

\* the blocks of a list-namespaces text are the returned namespaces, in order
ListBlocksInOrder ==
    LET ns == inv.data.namespaces
        at == PositionsOf("Namespace: ")
    IN  /\ Len(at) = Len(ns)
        /\ \A i \in DOMAIN ns :
              /\ inv.result[at[i] + 1] = ns[i].namespace_name
              /\ inv.result[at[i] + 4] = ns[i].type
              /\ inv.result[at[i] + 7] = ShownNumber(ns[i], "vector_dimension")
              /\ inv.result[at[i] + 10] = ns[i].createdAt

\* the blocks of a search text are the returned matches, in order and
\* numbered from 1, and the total follows the last block
SearchBlocksInOrder ==
    LET rs == inv.data.results
        at == PositionsOf("Result ")
        n  == Len(inv.result)
    IN  /\ Len(at) = Len(rs)
        /\ \A i \in DOMAIN rs :
              /\ inv.result[at[i] + 1] = ToString(i)
              /\ inv.result[at[i] + 5] = rs[i].content
              /\ inv.result[at[i] + 8] = ShownNumber(rs[i], "score")
              /\ inv.result[at[i] + 11] = IF Has(rs[i], "metadata") THEN rs[i].metadata
                                             ELSE "{}"
        /\ at[Len(at)] + 13 < n - 1
        /\ inv.result[n - 1] = "\n\nTotal results: "
        /\ inv.result[n] = ToString(IF Has(inv.data, "total") /\ inv.data.total # 0
                                     THEN inv.data.total ELSE Len(rs))

PoolStarts ==
    {NewInv("list-namespaces", Empty)}
    \cup {NewInv("search", [namespaces |-> <<"vecs", "docs">>, query |-> Str(q)]) :
             q \in {<<"1", ",", "2">>, <<"x">>}}

\* the handler up to its first await
Begin(i) ==
    IF i.tool = "search" THEN searchStart(i)
    ELSE Issue(i, "await", listNamespacesRequest(i.args))

\* the responses of the pool: a server error, or a payload of at most one item
PoolReplies(i) ==
    {r \in Replies(i) :
        /\ r.status \in {200, 500}
        /\ r.status = 200 =>
              /\ Has(r.data, "namespaces") => Len(r.data.namespaces) <= 1
              /\ Has(r.data, "results") => Len(r.data.results) <= 1}

\* handlers that keep the namespace found by the lookup in a variable of the
\* module, which every invocation in flight then sees
PoolResumeSharedTarget(p, s, resp) ==
    LET i2 == Resume(Settle(p[s].inv, resp), resp) IN
    [t \in DOMAIN p |->
        IF t = s THEN [inv |-> i2, log |-> Append(p[s].log, resp)]
        ELSE IF p[t].inv.pc # "idle" THEN [p[t] EXCEPT !.inv.target = i2.target]
        ELSE p[t]]

\* the pool after the pending call of slot s settled with resp: the handler
\* of that invocation runs on with its own locals
PoolResume(p, s, resp) ==
    [p EXCEPT ![s] = [inv |-> Resume(Settle(p[s].inv, resp), resp),
                      log |-> Append(p[s].log, resp)]]

PoolStart(s) ==
    /\ pool[s].inv.pc = "idle"
    /\ \E i \in PoolStarts : pool' = [pool EXCEPT ![s] = [inv |-> Begin(i), log |-> <<>>]]
    /\ UNCHANGED <<Fixed, inv, store, told, out>>

PoolRespond(s) ==
    /\ pool[s].inv.pc \in {"await", "await_lookup"}
    /\ \E resp \in PoolReplies(pool[s].inv) : pool' = PoolResume(pool, s, resp)
    /\ UNCHANGED <<Fixed, inv, store, told, out>>

PoolDeliver(s) ==
    /\ pool[s].inv.pc = "done"
    /\ pool' = [pool EXCEPT ![s] = [inv |-> IdleInv, log |-> <<>>]]
    /\ UNCHANGED <<Fixed, inv, store, told, out>>

PoolNext == \E s \in Slots : PoolStart(s) \/ PoolRespond(s) \/ PoolDeliver(s)

PoolSpec == Init /\ [][PoolNext]_vars


\* the handler run alone from state i over the responses of log
RECURSIVE ReplayFrom(_, _)
ReplayFrom(i, log) ==
    IF log = <<>> THEN i
    ELSE ReplayFrom(Resume(Settle(i, Head(log)), Head(log)), Tail(log))

\* the invocation of slot s run alone: on its own arguments and the
\* responses to its own calls
Alone(s) == ReplayFrom(Begin(NewInv(pool[s].inv.tool, pool[s].inv.args)), pool[s].log)

Suspended(s) == pool[s].inv.pc \in {"await", "await_lookup"}

searchBare ==
    /\ Idle
    /\ \E a \in {b \in SearchArgs : DOMAIN b \subseteq {"namespaces", "query", "query_type"}} :
          inv' = searchStart(NewInv("search", a))
    /\ UNCHANGED <<Fixed, Aside>>

LiveNext ==
    \/ listNamespaces \/ createNamespace \/ deleteNamespace
    \/ uploadText \/ uploadVectors \/ deleteData \/ getData \/ uploadFile
    \/ searchBare \/ answer
    \/ Respond \/ Deliver

\* every pending call eventually responds or fails
LiveSpec == Init /\ [][LiveNext]_vars /\ WF_vars(Respond)

\* C21: provided every call it issues eventually responds or fails, every
\* dispatched invocation eventually returns, with a text; a call that is
\* pending is given up by no step but its settling, and an invocation that
\* has returned issues no further call and returns no second result: its only
\* step is the delivery of the one it has.
C21_EveryInvocationReturnsOnce ==
    /\ Active ~> (Done /\ ~inv.raised /\ inv.result # <<>>)
    /\ [][/\ inv.pc \in {"await", "await_lookup"}
             => /\ inv'.pc # "idle"
                /\ Len(inv'.statuses) = Len(inv.statuses) + 1
          /\ inv.pc = "done" => inv' = IdleInv]_vars

\* a search returned its text after both of its calls were answered
C21_Witness ==
    /\ Done /\ IsTool("search") /\ Len(inv.calls) = 2 /\ inv.statuses = <<200, 200>>
    /\ inv.result # <<>> /\ ~inv.raised

(***************************************************************************)
(* The namespace lookup of search                                          *)
(***************************************************************************)
\* a search with a string query whose lookup has settled
LookedUp ==
    /\ IsTool("search") /\ rev \in {"list", "mono"}
    /\ Has(inv.args.query, "str") /\ Len(inv.args.namespaces) > 0
    /\ inv.statuses # <<>>

\* the lookup succeeded and told the descriptor of the first namespace
Found == LookedUp /\ inv.statuses[1] = 200 /\ Has(inv.target, "type")

\* the body of a search request for the arguments with the query q
BodyWith(args, q) ==
    [f \in {"namespaces", "query", "top_k", "kiosk_mode"}
           \cup (DOMAIN args \cap {"threshold"}) |->
        CASE f = "query" -> q
          [] f = "top_k" -> IF Has(args, "top_k") THEN args.top_k ELSE 10
          [] f = "kiosk_mode" -> IF Has(args, "kiosk_mode") THEN args.kiosk_mode ELSE FALSE
          [] OTHER -> args[f]]

\* the invocation has sent the search request with the query q after its lookup
SearchedWith(q) ==
    /\ Len(inv.calls) = 2
    /\ inv.calls[2].method = "POST" /\ inv.calls[2].url = API_ENDPOINTS.search
    /\ inv.calls[2].data = BodyWith(inv.args, q)

\* C22: for a string query, when the list call succeeds and does not name the
\* first namespace, the list-based revision sends the string to the search
\* endpoint; when the details call for the first namespace fails, the
\* details-based revision returns an "Error searching" text and never calls
\* the search endpoint; when the lookup tells the namespace's descriptor, the
\* search request (method, URL and body) or the rejection is, in both
\* revisions, the same function of the arguments and the descriptor.
C22_LookupRevisionsDiffer ==
    LookedUp =>
        /\ (rev = "list" /\ inv.statuses[1] = 200 /\ inv.target = Empty)
              => SearchedWith(inv.args.query)
        /\ (rev = "mono" /\ inv.statuses[1] # 200)
              => /\ inv.pc = "done" /\ Len(inv.calls) = 1
                 /\ inv.calls[1].url # API_ENDPOINTS.search
                 /\ inv.result[1] = "Error searching: "
        /\ Found =>
              LET nums == ParseVector(inv.args.query.str)
                  dim  == IF Has(inv.target, "vector_dimension")
                          THEN inv.target.vector_dimension ELSE 0
              IN  IF inv.target.type # "vector" THEN SearchedWith(inv.args.query)
                  ELSE IF nums = <<>> \/ (dim # 0 /\ dim # Len(nums))
                  THEN /\ inv.pc = "done" /\ Len(inv.calls) = 1
                       /\ inv.result[1] = "Error: Query string could not be parsed into a valid "
                  ELSE SearchedWith([arr |-> nums])

\* the details call for the first namespace was refused and the search ended
\* with the error text
C22_Witness ==
    /\ LookedUp /\ rev = "mono" /\ inv.statuses = <<403>>
    /\ inv.pc = "done" /\ inv.result[1] = "Error searching: "
    /\ inv.args.query = Str(<<"x">>)

(***************************************************************************)
(* The forwarding tools                                                    *)
(***************************************************************************)
\* the path below the namespaces endpoint, and the body, that the tool of
\* the invocation is to send for its arguments
ForwardedPath ==
    CASE inv.tool = "create-namespace" -> <<>>
      [] inv.tool = "upload-text"    -> <<"/", inv.args.namespace_name, "/documents">>
      [] inv.tool = "upload-vectors" -> <<"/", inv.args.namespace_name, "/vectors">>
      [] inv.tool = "delete-data"    -> <<"/", inv.args.namespace_name, "/documents/delete">>
      [] inv.tool = "get-data"       -> <<"/", inv.args.namespace_name, "/documents/get">>

ForwardedBody ==
    CASE inv.tool = "create-namespace" ->
            [f \in {"namespace_name", "type"} \cup (DOMAIN inv.args \cap {"vector_dimension"}) |->
                IF f = "type" /\ ~Has(inv.args, "type") THEN "text" ELSE inv.args[f]]
      [] inv.tool = "upload-text"    -> [documents |-> inv.args.documents]
      [] inv.tool = "upload-vectors" -> [vectors |-> inv.args.vectors]
      [] OTHER                       -> [ids |-> inv.args.ids]

\* C23: create-namespace, upload-text, upload-vectors, delete-data and
\* get-data issue, for every accepted argument combination, exactly one call,
\* a POST, with no lookup before it and no local rejection; its body holds the
\* caller's items or ids in the given order and unchanged, and the body of
\* create-namespace holds the kind "text" when the caller supplied none.
C23_ForwardedUnchanged ==
    (Active /\ inv.tool \in {"create-namespace", "upload-text", "upload-vectors",
                             "delete-data", "get-data"})
        => /\ Len(inv.calls) = 1
           /\ inv.calls[1].method = "POST"
           /\ inv.calls[1].url = API_ENDPOINTS.namespaces \o ForwardedPath
           /\ inv.calls[1].data = ForwardedBody

\* vectors of two different lengths went out in one upload, as given
C23_Witness ==
    /\ Done /\ IsTool("upload-vectors") /\ inv.statuses = <<200>>
    /\ Len(inv.args.vectors) = 2
    /\ Len(inv.args.vectors[1].vector) # Len(inv.args.vectors[2].vector)
    /\ inv.calls[1].data.vectors = inv.args.vectors


(***************************************************************************)
(* The conversion of a string query for a vector namespace                 *)
(***************************************************************************)
\* the comma-separated tokens of s that begin, after white space, with a number
NumericTokens(s) ==
    SelectSeq(Split(s), LAMBDA tk : Trim(tk) # <<>> /\ IsDigit(Head(Trim(tk))))

\* the number each such token begins with
LeadingNumbers(toks) == [k \in DOMAIN toks |-> DigitRun(0, Trim(toks[k]))]

\* the search ended at the validation error, with the lookup its only call
RejectedLocally ==
    /\ inv.pc = "done" /\ ~inv.raised /\ Len(inv.calls) = 1
    /\ inv.result[1] = "Error: Query string could not be parsed into a valid "

\* C24: when a string query is parsed against a vector namespace with a
\* configured dimension, the tokens that do not begin with a number are
\* dropped: the query is accepted exactly when the tokens that begin with a
\* number are at least one and as many as the dimension, whatever the number
\* of tokens, and the search request then carries the array of those numbers,
\* in order, without the dropped tokens; otherwise the validation error is
\* returned and no search call is made.
C24_NonNumericTokensAreDropped ==
    (Found /\ inv.target.type = "vector" /\ VectorDimension(inv.target) # 0)
        => LET toks == NumericTokens(inv.args.query.str) IN
           IF Len(toks) >= 1 /\ Len(toks) = inv.target.vector_dimension
           THEN SearchedWith([arr |-> LeadingNumbers(toks)])
           ELSE RejectedLocally

\* the bracketed "[1, 2]" was accepted against dimension 1 and sent as [2]
C24_Witness ==
    /\ Found /\ inv.target.type = "vector" /\ VectorDimension(inv.target) = 1
    /\ inv.args.query = [str |-> <<"[", "1", ",", " ", "2", "]">>]
    /\ Len(Split(inv.args.query.str)) > inv.target.vector_dimension
    /\ SearchedWith([arr |-> <<2>>])


\* C25: when the vector namespace the lookup told has no dimension, the
\* property missing or 0, the length is not tested: a string query with at
\* least one token that begins with a number is accepted and its numbers go
\* out as an array of whatever length they make, and only a string with no
\* such token is rejected.
C25_NoDimensionNoLengthCheck ==
    (Found /\ inv.target.type = "vector"
           /\ (~Has(inv.target, "vector_dimension") \/ inv.target.vector_dimension = 0))
        => LET toks == NumericTokens(inv.args.query.str) IN
           IF Len(toks) >= 1
           THEN SearchedWith([arr |-> LeadingNumbers(toks)])
           ELSE RejectedLocally

\* two numbers went out to a vector namespace that reports the dimension 0
C25_Witness ==
    /\ Found /\ inv.target.type = "vector"
    /\ Has(inv.target, "vector_dimension") /\ inv.target.vector_dimension = 0
    /\ inv.args.query = [str |-> <<"1", ",", "2">>]
    /\ SearchedWith([arr |-> <<1, 2>>])


(***************************************************************************)
(* Searches in flight with creations and deletions                         *)
(* The invocations of the pool call the store: a search looks up what the  *)
(* store holds when its lookup is served, and searches when its second     *)
(* call is served, and the calls of the other invocations are served in    *)
(* between in any order.                                                   *)
(***************************************************************************)
\* the invocations started against the store
RaceStarts ==
    {NewInv("create-namespace", a) :
        a \in {[namespace_name |-> "vecs", type |-> "text"],
               [namespace_name |-> "vecs", type |-> "vector", vector_dimension |-> 2],
               [namespace_name |-> "docs", type |-> "vector", vector_dimension |-> 2]}}
    \cup {NewInv("delete-namespace", [namespace_name |-> "vecs"])}
    \cup {NewInv("search", [namespaces |-> n, query |-> Str(q)]) :
             n \in {<<"vecs", "docs">>} \cup (IF rev = "qtype" THEN {} ELSE {<<>>}),
             q \in {<<"1", ",", "2">>, <<"x">>}}

\* the handler up to its first await
RaceBegin(i) ==
    CASE i.tool = "create-namespace" -> Issue(i, "await", createNamespaceRequest(i.args))
      [] i.tool = "delete-namespace" -> Issue(i, "await", deleteNamespaceRequest(i.args))
      [] OTHER                       -> searchStart(i)

\* the store as the whole service: it also answers a GET for one namespace
\* with its descriptor, and a search with no match
RaceServe(s, call) ==
    IF call.url = API_ENDPOINTS.search
    THEN [resp |-> Ok([results |-> <<>>]), store |-> s]
    ELSE IF call.method = "GET" /\ call.url # API_ENDPOINTS.namespaces
    THEN LET k == StoreIndex(s, call.url[Len(call.url)]) IN
         [resp  |-> IF k = 0
                    THEN [status |-> 404, data |-> [json |-> "{\"message\":\"not found\"}"]]
                    ELSE Ok(s[k]),
          store |-> s]
    ELSE StoreServe(s, call)

\* a call that was issued by one lock-holder at a time: nothing else is served
\* while a search is between its lookup and its search call
SettlesInTurn(p, s) ==
    /\ p[s].inv.pc \in {"await", "await_lookup"}
    /\ \A t \in DOMAIN p \ {s} :
          ~(p[t].inv.pc = "await" /\ p[t].inv.tool = "search" /\ Len(p[t].inv.calls) = 2)

\* the pending call of slot s can settle: the handlers hold nothing across
\* an await that keeps the call of another invocation back
Settles(p, s) == p[s].inv.pc \in {"await", "await_lookup"}

RaceStart(s) ==
    /\ pool[s].inv.pc = "idle"
    /\ \E i \in RaceStarts : pool' = [pool EXCEPT ![s] = [inv |-> RaceBegin(i), log |-> <<>>]]
    /\ UNCHANGED <<Fixed, inv, store, told, out>>

\* the store serves the pending call of slot s and its handler runs on
RaceRespond(s) ==
    /\ Settles(pool, s)
    /\ LET served == RaceServe(store, pool[s].inv.calls[Len(pool[s].inv.calls)]) IN
          /\ pool' = PoolResume(pool, s, served.resp)
          /\ store' = served.store
    /\ UNCHANGED <<Fixed, inv, told, out>>

RaceNext == \E s \in Slots : RaceStart(s) \/ RaceRespond(s) \/ PoolDeliver(s)

RaceSpec == Init /\ [][RaceNext]_vars

\* slot s holds a search of the revisions that look the namespace up
Searching(s) ==
    /\ pool[s].inv.pc # "idle" /\ pool[s].inv.tool = "search"
    /\ rev \in {"list", "mono"}

\* what the lookup of slot s was told about the first listed namespace: its
\* descriptor, or the empty object when the list does not name it
FirstListed(s) ==
    LET d == pool[s].log[1].data
        n == pool[s].inv.args.namespaces[1]
    IN  IF rev = "mono" THEN d
        ELSE IF \E k \in DOMAIN d.namespaces : d.namespaces[k].namespace_name = n
        THEN d.namespaces[CHOOSE k \in DOMAIN d.namespaces : d.namespaces[k].namespace_name = n]
        ELSE Empty

\* the query the search of slot s is to send after what its lookup was told
FormAtLookup(s) ==
    IF Has(FirstListed(s), "type") /\ FirstListed(s).type = "vector"
    THEN [arr |-> ParseVector(pool[s].inv.args.query.str)]
    ELSE pool[s].inv.args.query

\* C26: in a search over several namespaces with a string query, the first
\* listed namespace alone decides: one lookup is made, naming in the
\* details-based revision the first namespace only, and the search request
\* goes to all the listed namespaces with the string itself when the first is
\* not a vector namespace, whatever the others are, and with the array of
\* numbers when the first is one; with an empty list the only call is the
\* search request, with the string.
C26_FirstNamespaceDecides ==
    \A s \in Slots :
        Searching(s) =>
            LET i == pool[s].inv IN
            IF i.args.namespaces = <<>>
            THEN /\ Len(i.calls) = 1
                 /\ i.calls[1].url = API_ENDPOINTS.search
                 /\ i.calls[1].data.query = i.args.query
            ELSE /\ \A k \in DOMAIN i.calls : i.calls[k].method = "GET" <=> k = 1
                 /\ i.calls[1].url = IF rev = "list" THEN API_ENDPOINTS.namespaces
                                     ELSE API_ENDPOINTS.namespaces \o <<"/", i.args.namespaces[1]>>
                 /\ (pool[s].log # <<>> /\ pool[s].log[1].status = 200
                        /\ FormAtLookup(s) = i.args.query) => Len(i.calls) = 2
                 /\ Len(i.calls) = 2 =>
                       /\ i.calls[2].data.namespaces = i.args.namespaces
                       /\ i.calls[2].data.query = FormAtLookup(s)

\* "1,2" went out as text to vecs and docs: the list told vecs as a text
\* namespace and docs, listed second, as a vector namespace of dimension 2
C26_Witness ==
    \E s \in Slots :
        /\ Searching(s) /\ rev = "list" /\ Len(pool[s].inv.calls) = 2
        /\ pool[s].inv.args = [namespaces |-> <<"vecs", "docs">>, query |-> [str |-> <<"1", ",", "2">>]]
        /\ Has(FirstListed(s), "type") /\ FirstListed(s).type = "text"
        /\ \E k \in DOMAIN pool[s].log[1].data.namespaces :
              LET d == pool[s].log[1].data.namespaces[k] IN
              d.namespace_name = "docs" /\ d.type = "vector" /\ d.vector_dimension = 2
        /\ pool[s].inv.calls[2].data.query = [str |-> <<"1", ",", "2">>]


\* the kind the store holds for the namespace called n, "none" when it holds
\* no such namespace
KindNow(n) ==
    IF StoreIndex(store, n) = 0 THEN "none" ELSE store[StoreIndex(store, n)].type

\* C28: the lookup of a search and its search call are two calls with no
\* second lookup between or after them; the query of the search call is the
\* one that fits what the lookup was told, whatever the store holds by then;
\* and while the search call is pending, the creation or deletion another
\* invocation has issued can be served before it, so that the namespace is
\* deleted or recreated between the two calls.
C28_LookupAndSearchNotAtomic ==
    \A s \in Slots :
        (Searching(s) /\ Len(pool[s].inv.calls) = 2) =>
            LET i == pool[s].inv IN
            /\ IsLookup(i.calls[1]) /\ pool[s].log[1].status = 200
            /\ i.calls[2].url = API_ENDPOINTS.search
            /\ i.calls[2].data.query = FormAtLookup(s)
            /\ i.pc = "await" =>
                  \A t \in Slots \ {s} :
                      (pool[t].inv.pc = "await"
                          /\ pool[t].inv.tool \in {"create-namespace", "delete-namespace"})
                      => ENABLED RaceRespond(t)

\* a search call with the array [1, 2] is pending for vecs, which was a
\* vector namespace at the lookup and is a text namespace now: the other
\* invocations deleted and recreated it in between
C28_Witness ==
    \E s \in Slots :
        /\ Searching(s) /\ pool[s].inv.pc = "await" /\ Len(pool[s].inv.calls) = 2
        /\ Has(FirstListed(s), "type") /\ FirstListed(s).type = "vector"
        /\ pool[s].inv.calls[2].data.query = [arr |-> <<1, 2>>]
        /\ KindNow("vecs") = "text"


(***************************************************************************)
(* A failed lookup                                                         *)
(***************************************************************************)
\* the message of the failure the lookup ended with, as the last piece of a text
LookupMessage ==
    IF inv.statuses[1] = 0 THEN NetMessages ELSE {b.json : b \in ErrBodies}

\* C27: when the namespace lookup of a search fails, with any HTTP error
\* status or with no response at all, the invocation ends there: the lookup
\* is its only call, the search endpoint is not called, and the returned text
\* is "Error searching: " followed by the message of the lookup's failure;
\* this is so for every string query, one that needs no conversion included.
C27_FailedLookupEndsSearch ==
    (LookedUp /\ inv.statuses[1] \notin 200..299)
        => /\ inv.pc = "done" /\ ~inv.raised
           /\ Len(inv.calls) = 1 /\ inv.calls[1].method = "GET"
           /\ inv.calls[1].url # API_ENDPOINTS.search
           /\ inv.result[1] = "Error searching: "
           /\ inv.result[Len(inv.result)] \in LookupMessage

\* the list call got no response and the search of the plain text "x" ended
\* with the network error
C27_Witness ==
    /\ LookedUp /\ rev = "list" /\ inv.statuses = <<0>>
    /\ inv.args.query = [str |-> <<"x">>]
    /\ inv.pc = "done" /\ Len(inv.calls) = 1
    /\ inv.result = <<"Error searching: ", "Network Error: ", "connect ECONNREFUSED">>


(***************************************************************************)
(* The query_type revision of search                                       *)
(***************************************************************************)
\* the text starts with '[', ends with ']' and is the JSON text of an array
\* of numbers
BracketedNumbers(s) ==
    /\ s # <<>> /\ s[1] = "[" /\ s[Len(s)] = "]"
    /\ IsNumberArray(JSONparse(s))

\* the search ended with the text, having made no call
ReturnedUncalled(text) ==
    /\ inv.pc = "done" /\ ~inv.raised /\ inv.calls = <<>> /\ inv.result = <<text>>

\* the only call of the search is the search request with the query q
OnlySearches(q) ==
    /\ Len(inv.calls) = 1
    /\ inv.calls[1].method = "POST" /\ inv.calls[1].url = API_ENDPOINTS.search
    /\ inv.calls[1].data.query = q

\* C29: in the query_type revision a search makes no namespace lookup, and
\* calls the search endpoint only with a query that fits the type: with
\* query_type 'vector' a string that is not the JSON text of an array of
\* numbers, and with query_type 'text' an array, end in an error text without
\* a call; with query_type 'vector' a string that is such a JSON text goes out
\* as the array; without query_type a string goes out as the array of numbers
\* exactly when it starts with '[', ends with ']' and is the JSON text of an
\* array of numbers, and as it is otherwise; an array goes out as it is.
C29_QueryTypeResolution ==
    (IsTool("search") /\ rev = "qtype") =>
        LET q   == inv.args.query
            qt  == IF Has(inv.args, "query_type") THEN inv.args.query_type ELSE "unset"
            str == Has(q, "str")
        IN  /\ \A k \in DOMAIN inv.calls : inv.calls[k].url = API_ENDPOINTS.search
            /\ IF qt = "vector" /\ str /\ ~IsNumberArray(JSONparse(q.str))
               THEN ReturnedUncalled("Error: Vector query type requires an array of numbers")
               ELSE IF qt = "text" /\ ~str
               THEN ReturnedUncalled("Error: Text query type requires a string query. Example: \"your search text here\"")
               ELSE IF str /\ (qt = "vector" \/ (qt = "unset" /\ BracketedNumbers(q.str)))
               THEN OnlySearches([arr |-> JSONparse(q.str).nums])
               ELSE OnlySearches(q)

\* without a query_type the string "[1, 2]" went out as the array [1, 2]
C29_Witness ==
    /\ IsTool("search") /\ rev = "qtype" /\ ~Has(inv.args, "query_type")
    /\ inv.args.query = [str |-> <<"[", "1", ",", " ", "2", "]">>]
    /\ OnlySearches([arr |-> <<1, 2>>])
    /\ inv.pc = "done" /\ inv.statuses = <<200>>


(***************************************************************************)
(* Empty arrays                                                            *)
(***************************************************************************)
\* the query of the search is the empty array, or in the query_type revision
\* the string "[]"
EmptyArrayQuery ==
    \/ inv.args.query = [arr |-> <<>>]
    \/ rev = "qtype" /\ inv.args.query = [str |-> <<"[", "]">>]

\* C30 as stated: the rejection of a query with no number is made only for a
\* string query parsed against a vector namespace; an empty array given as
\* the query, and in the query_type revision the string "[]", are not
\* rejected and go out to the search endpoint as the empty array.
C30_AsStated ==
    IsTool("search") =>
        /\ (inv.result # <<>>
               /\ inv.result[1] = "Error: Query string could not be parsed into a valid ")
              => (Found /\ inv.target.type = "vector")
        /\ EmptyArrayQuery => OnlySearches([arr |-> <<>>])

\* C30, amended: the rejection of a query with no number is made only for a
\* string query parsed against a vector namespace; an empty array given as
\* the query, and in the query_type revision the string "[]", go out to the
\* search endpoint as the empty array, with no lookup and no rejection,
\* unless the query_type revision is called with query_type 'text', which
\* rejects the array as every array and sends "[]" as text.
C30_EmptyArrayNotRejected ==
    IsTool("search") =>
        /\ (inv.result # <<>>
               /\ inv.result[1] = "Error: Query string could not be parsed into a valid ")
              => (Found /\ inv.target.type = "vector")
        /\ (EmptyArrayQuery /\ ~(Has(inv.args, "query_type") /\ inv.args.query_type = "text"))
              => OnlySearches([arr |-> <<>>])
        /\ (EmptyArrayQuery /\ Has(inv.args, "query_type") /\ inv.args.query_type = "text")
              => IF Has(inv.args.query, "arr")
                 THEN ReturnedUncalled("Error: Text query type requires a string query. Example: \"your search text here\"")
                 ELSE OnlySearches(inv.args.query)

\* the string "[]" went out as the empty array and the service answered
C30_Witness ==
    /\ IsTool("search") /\ rev = "qtype" /\ ~Has(inv.args, "query_type")
    /\ inv.args.query = [str |-> <<"[", "]">>]
    /\ OnlySearches([arr |-> <<>>])
    /\ inv.pc = "done" /\ inv.statuses = <<200>>

====
